---- MODULE Spec2Model ----
(***************************************************************************)
(* Model of the URL shortener serroba/web-demo-go.                         *)
(*                                                                         *)
(* Part 1 (Spec): the shortening engine.  Requests (create with the token  *)
(* or the hash strategy, redirect) run concurrently, one goroutine each,   *)
(* against the repository RedisCacheRepository -> PostgresStore.  Every    *)
(* call to Redis or PostgreSQL is one atomic step, so requests interleave  *)
(* between calls exactly as goroutines do.  Every such call may fail (the  *)
(* service is unreachable, the context is cancelled).  The optional        *)
(* in-memory LRU tier (CACHE_SIZE > 0) is configured off (CACHE_SIZE = 0). *)
(*                                                                         *)
(* Part 2 (RLSpec): the rate limiter (counter store, sliding-window        *)
(* limiter, policy limiter) driven by a clock.                             *)
(*                                                                         *)
(* Part 3 (MWSpec): the middleware PolicyRateLimiter in front of the       *)
(* policy limiter, with the endpoint configuration of the operations and   *)
(* a counter store whose Record can fail.  ResolverSpec: the scope         *)
(* resolver as a function of the request.                                  *)
(*                                                                         *)
(* Part 4 (HSpec): the engine of part 1 under the handlers CreateShortURL  *)
(* and RedirectToURL, with every strategy name a request can carry and a   *)
(* publisher that can fail.                                                *)
(* Part 5 (DownSpec): part 4 with Redis failing on every call and          *)
(* PostgreSQL available.                                                   *)
(* Part 6 (NormSpec): NormalizeURL and HashURL applied to pairs of URLs.   *)
(* Part 7 (CGSpec): the ConsumerGroup, its consumers and their messages.   *)
(* Part 8 (CGLiveSpec): part 7 with redelivery of nacked messages,         *)
(* Shutdown called in any state, and fairness.                             *)
(* Part 9 (ConcSpec): goroutines that call RateLimitMemoryStore.Record on  *)
(* one key at the same time, statement by statement.                       *)
(***************************************************************************)
EXTENDS Integers, Sequences, FiniteSets, TLC

(***************************************************************************)
(* Bounds of the model.                                                    *)
(***************************************************************************)
\* total number of requests started in one behaviour of Spec
MaxReqs == 3
\* last value of the clock in Spec
MaxNow == 1
\* last value of the clock in RLSpec
MaxTime == 2
\* number of calls (Record, SlidingWindowLimiter.Allow, PolicyLimiter.Allow)
\* started in one behaviour of RLSpec
MaxOps == 3

\* number of requests that arrive at the middleware in one behaviour of
\* MWSpec
MaxCalls == 2

\* total number of requests started in one behaviour of HSpec and of
\* DownSpec
MaxHReqs == 2

\* number of messages the consumers take in one behaviour of CGSpec
MaxMsgs == 2

\* number of messages published in one behaviour of CGLiveSpec
MaxLiveMsgs == 1

\* number of goroutines that call Record at the same time in ConcSpec
MaxCallers == 3

(***************************************************************************)
(* Strings are sequences of one-character strings.                         *)
(***************************************************************************)
\* strings.ToLower on one character (letters the model uses)
ToLowerChar(ch) ==
    CASE ch = "H" -> "h"
      [] ch = "T" -> "t"
      [] ch = "P" -> "p"
      [] ch = "S" -> "s"
      [] ch = "E" -> "e"
      [] OTHER -> ch

\* strings.ToLower
ToLower(s) == [i \in 1..Len(s) |-> ToLowerChar(s[i])]

\* strings.HasSuffix
HasSuffix(s, suf) ==
    /\ Len(s) >= Len(suf)
    /\ SubSeq(s, Len(s) - Len(suf) + 1, Len(s)) = suf

\* strings.TrimSuffix
TrimSuffix(s, suf) ==
    IF HasSuffix(s, suf) THEN SubSeq(s, 1, Len(s) - Len(suf)) ELSE s

sHTTP == <<"h", "t", "t", "p">>
sHTTPS == <<"h", "t", "t", "p", "s">>
sPort80 == <<":", "8", "0">>
sPort443 == <<":", "4", "4", "3">>
sSlash == <<"/">>

(***************************************************************************)
(* A raw URL is given by what url.Parse makes of it: valid = FALSE when    *)
(* url.Parse returns an error, else the parsed fields (host includes the   *)
(* port, as url.URL.Host does).                                            *)
(***************************************************************************)
MkURL(scheme, host, path, query, fragment) ==
    [valid |-> TRUE, scheme |-> scheme, host |-> host, path |-> path,
     query |-> query, fragment |-> fragment]

BadURL ==
    [valid |-> FALSE, scheme |-> <<>>, host |-> <<>>, path |-> <<>>,
     query |-> <<>>, fragment |-> <<>>]

\* url.URL.String() for URLs with a scheme and a host
URLString(u) ==
    u.scheme \o <<":", "/", "/">> \o u.host \o u.path
      \o (IF u.query # <<>> THEN <<"?">> \o u.query ELSE <<>>)
      \o (IF u.fragment # <<>> THEN <<"#">> \o u.fragment ELSE <<>>)

\* NormalizeURL, the url.URL before the final u.String()
NormalizeParsed(u) ==
    LET scheme == ToLower(u.scheme)
        host == ToLower(u.host)
        host2 == IF HasSuffix(host, sPort80) /\ scheme = sHTTP
                   THEN TrimSuffix(host, sPort80)
                   ELSE IF HasSuffix(host, sPort443) /\ scheme = sHTTPS
                          THEN TrimSuffix(host, sPort443)
                          ELSE host
        path == IF Len(u.path) > 1 /\ HasSuffix(u.path, sSlash)
                  THEN TrimSuffix(u.path, sSlash)
                  ELSE u.path
    IN  [u EXCEPT !.scheme = scheme, !.host = host2, !.path = path,
                  !.fragment = <<>>]

\* NormalizeURL: the normalised string (defined for u.valid)
NormalizeURL(u) == URLString(NormalizeParsed(u))

\* HashURL: SHA-256 is modelled as an injective function of its input
HashURL(s) == <<"sha256", s>>

\* the empty URLHash ""
EmptyHash == <<>>

\* strings.Index for a one-character separator: 0 when s does not hold it
IndexOf(s, ch) ==
    IF \E i \in 1..Len(s) : s[i] = ch
      THEN CHOOSE i \in 1..Len(s) : s[i] = ch /\ \A j \in 1..(i - 1) : s[j] # ch
      ELSE 0

\* url.Parse for strings "scheme://host[path][?query][#fragment]": the
\* fragment is what follows the first "#", the query what follows the first
\* "?", the scheme what precedes the first ":", the host what lies between
\* "//" and the next "/", the path the rest
ParseURL(s) ==
    LET fi == IndexOf(s, "#")
        s1 == IF fi = 0 THEN s ELSE SubSeq(s, 1, fi - 1)
        fragment == IF fi = 0 THEN <<>> ELSE SubSeq(s, fi + 1, Len(s))
        qi == IndexOf(s1, "?")
        s2 == IF qi = 0 THEN s1 ELSE SubSeq(s1, 1, qi - 1)
        query == IF qi = 0 THEN <<>> ELSE SubSeq(s1, qi + 1, Len(s1))
        ci == IndexOf(s2, ":")
        rest == SubSeq(s2, ci + 1, Len(s2))
        auth == SubSeq(rest, 3, Len(rest))
        si == IndexOf(auth, "/")
    IN  IF ci < 2 \/ Len(rest) < 2 \/ SubSeq(rest, 1, 2) # <<"/", "/">>
          THEN BadURL
          ELSE MkURL(SubSeq(s2, 1, ci - 1),
                     IF si = 0 THEN auth ELSE SubSeq(auth, 1, si - 1),
                     IF si = 0 THEN <<>> ELSE SubSeq(auth, si, Len(auth)),
                     query, fragment)

\* the raw URLs NormalizeURL is called with: schemes and hosts in both
\* cases, default and other ports, paths with no, one and two trailing
\* slashes, with and without query and fragment
NormURLs ==
    {MkURL(sc, h \o port, path, q, f) :
        sc \in {sHTTP, <<"H", "T", "T", "P">>, sHTTPS},
        h \in {<<"e">>, <<"E">>},
        port \in {<<>>, sPort80, sPort443},
        path \in {<<>>, <<"/">>, <<"/", "p">>, <<"/", "p", "/">>,
                  <<"/", "p", "/", "/">>},
        q \in {<<>>, <<"q">>},
        f \in {<<>>, <<"f">>}}

(***************************************************************************)
(* The consumer group, its configuration.                                  *)
(***************************************************************************)
\* the consumers registered with ConsumerGroup.Add, in registration order
GroupConsumers == 1..3

\* no call of NormalizeURL yet
NoNorm == [a |-> <<>>, b |-> <<>>, ha |-> EmptyHash, hb |-> EmptyHash, aa |-> <<>>]

(***************************************************************************)
(* Part 1: the shortening engine.                                          *)
(***************************************************************************)
\* the goroutines serving requests
Procs == {"p1", "p2"}

\* the codes the generator (nanoid) can return, in the order of their first
\* appearance
CodeSeq == <<"c1", "c2">>

Codes == {CodeSeq[i] : i \in 1..Len(CodeSeq)}

\* no code (the empty string)
NoCode == ""

\* "HTTPS://E/p/"
U1 == MkURL(<<"H", "T", "T", "P", "S">>, <<"E">>, <<"/", "p", "/">>, <<>>, <<>>)
\* "https://e/q"
U3 == MkURL(sHTTPS, <<"e">>, <<"/", "q">>, <<>>, <<>>)

\* "https://e/p", another spelling of U1 with the same normalised form
U2 == MkURL(sHTTPS, <<"e">>, <<"/", "p">>, <<>>, <<>>)

\* the URLs clients submit
ReqURLs == {U1, U3, BadURL}

\* the URLs clients submit for the token strategy, which does not look at
\* the URL
TokenURLs == {U3}

\* CACHE_TTL > 0 (default 1h): cached entities expire
TTLEnabled == TRUE

\* sub-microsecond clock ticks per microsecond: time.Now() has nanosecond
\* resolution, a TIMESTAMPTZ column keeps microseconds
TicksPerMicro == 2

\* shortener.ShortURL
ShortURL(code, url, hash, createdAt) ==
    [code |-> code, originalUrl |-> url, urlHash |-> hash, createdAt |-> createdAt]

\* the zero ShortURL (nil result)
NoRec == ShortURL(NoCode, BadURL, EmptyHash, 0)

(***************************************************************************)
(* Part 2: the rate limiter, its configuration.                            *)
(***************************************************************************)
\* the client keys (clientKey: user id or IP address), in the order of their
\* first request
ClientSeq == <<"a", "b">>

Clients == {ClientSeq[i] : i \in 1..Len(ClientSeq)}

\* ratelimit.LimitConfig
Limit(max, window) == [max |-> max, window |-> window]

\* Policy.Limits as PolicyBuilder.AddLimit registers them (per scope, in
\* registration order); counts and windows scaled to clock ticks
PolicyLimits ==
    [global |-> <<Limit(2, 2)>>,
     read |-> <<Limit(1, 2)>>,
     write |-> <<Limit(1, 1), Limit(1, 2)>>]

\* the scope lists a ScopeResolver returns: global, then read or write by
\* the method, or the scope of the EndpointConfig ("admin" has no limits)
ScopeLists ==
    {<<"global", "read">>, <<"global", "write">>, <<"global", "admin">>}

\* limit and window of the SlidingWindowLimiter (RATE_LIMIT_REQUESTS,
\* RATE_LIMIT_WINDOW), scaled to clock ticks
SlideConfig == Limit(1, 1)

\* buildKey without the client key: one counter per scope and window
buildKeyShared(clientKey, scope, limit) == <<ClientSeq[1], scope, limit.window>>

\* PolicyLimiter.buildKey: clientKey:scope:windowMillis
buildKey(clientKey, scope, limit) == <<clientKey, scope, limit.window>>

\* the key the SlidingWindowLimiter middleware uses: the client key
SlideKey(clientKey) == <<clientKey, "", 0>>

\* the goroutines that call Record at the same time
Callers == 1..MaxCallers

\* keys and windows of the callers that use the store directly
DirectKeys == {<<"k", "", 0>>}

DirectWindows == {1, 2}

PolicyKeys ==
    UNION {{buildKey(c, sc, PolicyLimits[sc][i]) : i \in 1..Len(PolicyLimits[sc])} :
              c \in Clients, sc \in DOMAIN PolicyLimits}

SlideKeys == {SlideKey(c) : c \in Clients}

\* huma.Operation as the middleware reads it: the method of the request, the
\* path template, whether ctx.Operation() is non-nil, what Metadata holds
\* under "rateLimit" ("nil": Metadata is nil, "nokey": no such key,
\* "wrongtype": a value that is not an EndpointConfig, "config": cfg)
Operation(method, path, op, meta, cfg) ==
    [method |-> method, path |-> path, op |-> op, meta |-> meta, cfg |-> cfg]

\* ratelimit.EndpointConfig
EndpointConfig(scope, disabled, limits) ==
    [nil |-> FALSE, scope |-> scope, disabled |-> disabled, limits |-> limits]

\* no EndpointConfig (a nil *EndpointConfig)
NilConfig == [nil |-> TRUE, scope |-> "", disabled |-> FALSE, limits |-> <<>>]

\* RegisterRoutes: POST /shorten with its own limits (the stricter ones, per
\* minute and per hour), scaled to clock ticks
OpShorten ==
    Operation("POST", "/shorten", TRUE, "config",
              EndpointConfig("", FALSE, <<Limit(2, 1), Limit(2, 2)>>))

\* health.RegisterRoutes: GET /health without metadata
OpHealth == Operation("GET", "/health", TRUE, "nil", NilConfig)

\* an operation with limits of its own that two requests can exceed
OpCustom ==
    Operation("POST", "/custom", TRUE, "config",
              EndpointConfig("", FALSE, <<Limit(1, 1), Limit(1, 2)>>))

\* an operation with rate limiting disabled
OpDisabled ==
    Operation("POST", "/test", TRUE, "config", EndpointConfig("", TRUE, <<>>))

\* an operation whose metadata names its scope
OpScoped ==
    Operation("POST", "/admin", TRUE, "config", EndpointConfig("admin", FALSE, <<>>))

\* a request without operation (no route matched)
OpNone == Operation("POST", "", FALSE, "nil", NilConfig)

\* the operations requests arrive for
Operations == {OpShorten, OpHealth, OpCustom, OpDisabled, OpScoped}

\* MethodScopeResolver.Resolve with GET as the only read method
MethodResolveGetOnly(method) ==
    IF method = "GET" THEN <<"global", "read">> ELSE <<"global", "write">>

\* MethodScopeResolver.Resolve
MethodResolve(method) ==
    IF method \in {"GET", "HEAD", "OPTIONS"}
      THEN <<"global", "read">>
      ELSE <<"global", "write">>

\* GetEndpointConfig: nil without operation, without metadata, or when the
\* value under "rateLimit" is no EndpointConfig
GetEndpointConfig(o) ==
    IF ~o.op \/ o.meta = "nil" THEN NilConfig
    ELSE IF o.meta # "config" THEN NilConfig
    ELSE o.cfg

\* OperationScopeResolver.Resolve
Resolve(o) ==
    IF ~o.op \/ o.meta = "nil" THEN MethodResolve(o.method)
    ELSE IF o.meta # "config" THEN MethodResolve(o.method)
    ELSE IF o.cfg.scope # "" THEN <<"global", o.cfg.scope>>
    ELSE MethodResolve(o.method)

\* the key of checkCustomLimits taken to be the key of the write scope
customKeyAsWrite(clientK, path, limit) == buildKey(clientK, "write", limit)

\* checkCustomLimits, the key: clientKey:custom:path:windowMillis
customKey(clientK, path, limit) == <<clientK, "custom:" \o path, limit.window>>

CustomKeys ==
    UNION {{customKey(c, o.path, o.cfg.limits[i]) : i \in 1..Len(o.cfg.limits)} :
              c \in Clients, o \in Operations}

Keys == DirectKeys \cup SlideKeys \cup PolicyKeys \cup CustomKeys

\* the limit a limiter applies to a key of its own
LimitOf(key) ==
    IF key \in SlideKeys
      THEN SlideConfig
      ELSE CHOOSE l \in {PolicyLimits[sc][i] :
                            sc \in DOMAIN PolicyLimits \cap {key[2]},
                            i \in 1..Len(PolicyLimits[key[2]])} :
               l.window = key[3]

VARIABLES
    env,        \* the environment of the run (it never changes)
    now,        \* the clock (time.Now()); it advances at every reading
    db,         \* PostgreSQL table short_urls: a set of rows
    cacheEnt,   \* Redis hashes "url:"+code: a set of cached entities
    cacheIdx,   \* Redis hash "url_hashes": a set of <<urlHash, code>>
    pc,         \* per goroutine: the call it is about to make
    req,        \* per goroutine: the request it serves
    loc,        \* per goroutine: local variables
    started,    \* number of requests started
    racePending, \* ghost: hashes with one of two racing shortenings returned
    issued,     \* the codes the generator has returned so far
    raced,      \* ghost: hashes for which two racing shortenings have returned
    rlNow,      \* the clock of the rate limiter (time.Now())
    requests,   \* RateLimitMemoryStore.requests: key -> timestamps
    calls,      \* ghost: key -> every Record call on it (time, window, count)
    verdicts,   \* ghost: key -> what a limiter made of each count (passed?)
    pl,         \* the PolicyLimiter.Allow call in progress
    ops,        \* number of calls started
    mw,         \* the PolicyRateLimiter middleware call in progress
    log,        \* ghost: the middleware calls that have returned, in order
    rctx,       \* the request a ScopeResolver was last called with
    rscopes,    \* the scopes it returned
    nin,        \* the pair of raw URLs NormalizeURL was last called with
    nout,       \* what NormalizeURL and HashURL returned for them
    cg,         \* the ConsumerGroup: the call in progress and its results
    workers,    \* per registered consumer: started, cancelled, its loop
    msgs,       \* ghost: the messages the workers have taken, in order
    conc        \* the concurrent calls of Record: mu, the goroutine that
                \* holds RateLimitMemoryStore.mu or 0, and per goroutine
                \* that has entered Record its position, now, valid, and
                \* the count returned

\* the variables of the shortening engine
engineVars ==
    <<env, now, db, cacheEnt, cacheIdx, pc, req, loc, started, issued, racePending, raced>>

\* the variables of the parts that are checked on their own: scope
\* resolver, URL normaliser, consumer group
libVars == <<conc, rctx, rscopes, nin, nout, cg, workers, msgs>>

\* the variables of the rate-limiting middleware
mwVars == <<mw, log, libVars>>

\* the variables of the rate limiter

rlVars == <<rlNow, requests, calls, verdicts, pl, ops, mwVars>>

vars == <<engineVars, rlVars>>

\* strategy: the strategy name of the request body, as sent
NoReq == [op |-> "none", url |-> BadURL, code |-> NoCode, strategy |-> ""]

\* hash, code, rec: the locals of Shorten, GetByHash and GetByCode
\* gen: the code the generator returned to this request
\* status, created: the result of Shorten or GetByCode, once it has returned
\*   (rec is then the record returned; created: the record was built and saved)
\* after: ghost, the goroutines whose call had returned when this one started
\* post: ghost, this shortening started after a race on its hash was over
\* http, location: the status and the Location header of a redirect the
\*   handler answers with (0, BadURL: none)
\* event: what became of the event of the request ("none": no publish call,
\*   "published", "failed": the publisher returned an error)
\* created_events: the URLCreatedEvents handed to the publisher
NoLoc == [hash |-> EmptyHash, code |-> NoCode, rec |-> NoRec, gen |-> NoCode,
          status |-> "none", created |-> FALSE, after |-> {}, post |-> FALSE,
          http |-> 0, location |-> BadURL, event |-> "none",
          created_events |-> <<>>]

\* no LimitExceeded (nil)
NoExceeded == [scope |-> "", config |-> Limit(0, 0), count |-> 0]

\* no PolicyLimiter.Allow call in progress.  si, li: the positions of the two
\* loops; trace: ghost, the limits evaluated so far with the counts returned
\* err: Allow returned the error of the store
NoCall == [state |-> "idle", clientKey |-> "", scopes |-> <<>>, si |-> 1, li |-> 1,
           trace |-> <<>>, allowed |-> FALSE, exceeded |-> NoExceeded,
           err |-> FALSE]

\* no middleware call in progress.  at: ghost, the time the request arrived;
\* li: the position of the loop of checkCustomLimits; trace: ghost, the
\* limits evaluated with the counts Record returned; status: the status
\* written (0: none); nexts: the number of calls of next; failed: a Record
\* call returned an error; exceeded: what the 429 message names
NoMW == [state |-> "idle", client |-> "", op |-> OpNone, at |-> 0, scopes |-> <<>>,
         li |-> 1, trace |-> <<>>, status |-> 0, nexts |-> 0, failed |-> FALSE,
         exceeded |-> NoExceeded]

\* the strategy names a request body can carry ("": none given)
StrategyNames == {"token", "hash", "", "invalid"}

\* the strategies NewURLHandler is given
Strategies == {"token", "hash"}

\* an environment: the number of requests of the run, whether the
\* publisher can return an error, the strategy names that clients send,
\* whether every Redis call fails, whether no PostgreSQL call fails;
\* spellings: whether a second spelling of a URL is sent for the hash
\* strategy; msgs: the number of messages published; window: the window
\* the concurrent callers of Record pass
EnvOf(reqs, publisherFails, names, cacheDown, storeUp) ==
    [reqs |-> reqs, publisherFails |-> publisherFails, names |-> names,
     cacheDown |-> cacheDown, storeUp |-> storeUp, spellings |-> FALSE,
     msgs |-> MaxMsgs, window |-> 0]

\* an environment in which any call of Redis and of PostgreSQL can fail or
\* succeed
Env(reqs, publisherFails, names) ==
    EnvOf(reqs, publisherFails, names, FALSE, FALSE)

\* the state after construction, in environment e
StartWith(e, urls) ==
    /\ env = e
    /\ now = 0
    /\ db = {}
    /\ cacheEnt = {}
    /\ cacheIdx = {}
    /\ pc = [p \in Procs |-> "idle"]
    /\ req = [p \in Procs |-> NoReq]
    /\ loc = [p \in Procs |-> NoLoc]
    /\ started = 0
    /\ issued = {}
    /\ racePending = {}
    /\ raced = {}
    /\ rlNow = 0
    /\ requests = [k \in Keys |-> <<>>]
    /\ calls = [k \in Keys |-> <<>>]
    /\ verdicts = [k \in Keys |-> <<>>]
    /\ pl = NoCall
    /\ ops = 0
    /\ mw = NoMW
    /\ log = <<>>
    /\ rctx = OpNone
    /\ rscopes = <<>>
    /\ nin = urls
    /\ nout = NoNorm
    /\ cg = [op |-> "start", i |-> 1, failedAt |-> 0, firstErr |-> 0,
             errs |-> <<>>, closed |-> FALSE]
    /\ workers = [j \in GroupConsumers |->
                    [started |-> FALSE, cancelled |-> FALSE, loop |-> "none",
                     shutdown |-> FALSE]]
    /\ msgs = <<>>
    /\ conc = [mu |-> 0, callers |-> <<>>]

\* the state after construction, no call of NormalizeURL at hand
Start(e) == StartWith(e, <<BadURL, BadURL>>)

\* the engine: clients name the strategy, the publisher works
Init == Start(Env(MaxReqs, FALSE, Strategies))

\* the handlers: clients send every strategy name, the publisher can fail
HInit ==
    Start([Env(MaxHReqs, TRUE, StrategyNames) EXCEPT !.spellings = TRUE])

(***************************************************************************)
(* The clock and the code generator                                        *)
(***************************************************************************)
\* time.Now() returns a later time at every call, up to the bound MaxNow
ClockAfter(t) == IF t < MaxNow THEN t + 1 ELSE t

\* generateCode (nanoid): a random code, which can be one returned before.
\* A code returned for the first time is named by the next name in CodeSeq.
GenCodes ==
    issued \cup {CodeSeq[i] : i \in {j \in 1..Len(CodeSeq) :
                                     /\ CodeSeq[j] \notin issued
                                     /\ \A k \in 1..(j - 1) : CodeSeq[k] \in issued}}

(***************************************************************************)
(* PostgresStore                                                           *)
(***************************************************************************)
\* a time.Time written to a TIMESTAMPTZ column: truncated to microseconds
PgTimestamp(t) == t - (t % TicksPerMicro)

\* the row Save inserts; nullableString stores "" as NULL, which the
\* lookups read back as "" (EmptyHash stands for NULL in a row)
PgRow(r) == [r EXCEPT !.createdAt = PgTimestamp(@)]

\* ON CONFLICT (code) DO UPDATE instead of DO NOTHING
PgSaveUpsert(table, r) == {x \in table : x.code # r.code} \cup {PgRow(r)}

\* PostgresStore.Save: INSERT ... ON CONFLICT (code) DO NOTHING
PgSave(table, r) ==
    IF \E x \in table : x.code = r.code THEN table ELSE table \cup {PgRow(r)}

\* PostgresStore.GetByCode: the rows WHERE code = $1
PgRowsByCode(table, code) == {x \in table : x.code = code}

\* PostgresStore.GetByHash: the rows WHERE url_hash = $1 (NULL never matches)
PgRowsByHash(table, hash) ==
    {x \in table : x.urlHash # EmptyHash /\ x.urlHash = hash}

(***************************************************************************)
(* RedisCacheRepository                                                    *)
(***************************************************************************)
\* cacheURL, the entity part: HSet url:<code> (overwrites) and Expire
CacheEntAfter(ents, r) == {e \in ents : e.code # r.code} \cup {r}

\* cacheURL, the index part: HSet url_hashes <hash> <code> if the hash is set
CacheIdxAfter(idx, r) ==
    IF r.urlHash # EmptyHash
      THEN {e \in idx : e[1] # r.urlHash} \cup {<<r.urlHash, r.code>>}
      ELSE idx

\* whether a call of Redis succeeds
CacheOutcomes == IF env.cacheDown THEN {FALSE} ELSE BOOLEAN

\* whether a call of PostgreSQL succeeds
StoreOutcomes == IF env.storeUp THEN {TRUE} ELSE BOOLEAN

\* cacheURL: one pipeline; ok = FALSE when it fails, and the error is ignored
cacheURL(r, ok) ==
    IF ok
      THEN /\ cacheEnt' = CacheEntAfter(cacheEnt, r)
           /\ cacheIdx' = CacheIdxAfter(cacheIdx, r)
      ELSE UNCHANGED <<cacheEnt, cacheIdx>>

\* getFromCache: the cached entities under url:<code> (none: miss or error)
getFromCache(code, ok) ==
    IF ok THEN {e \in cacheEnt : e.code = code} ELSE {}

\* HGet url_hashes <hash>: the codes found (none: redis.Nil or error)
HGetIndex(hash, ok) ==
    IF ok THEN {e[2] : e \in {x \in cacheIdx : x[1] = hash}} ELSE {}

(***************************************************************************)
(* Start and end of a request.                                             *)
(***************************************************************************)
\* the goroutines whose Shorten or GetByCode call has returned
Returned == {q \in Procs : pc[q] = "respond"}

\* a handler whose default strategy is hash
defaultStrategyHash == "hash"

\* NewURLHandler: defaultStrategy: StrategyToken
defaultStrategy == "token"

\* CreateShortURL: an empty strategy name stands for the default strategy
StrategyName(name) == IF name = "" THEN defaultStrategy ELSE name

\* a free goroutine takes the request; goroutines are interchangeable, so
\* p2 is used only while p1 is busy
Begin(p, r) ==
    /\ pc[p] = "idle"
    /\ p = "p1" \/ pc["p1"] # "idle"
    /\ started < env.reqs
    /\ started' = started + 1
    /\ req' = [req EXCEPT ![p] = r]

\* the request of p has generated a code and is saving the record
Creating(p) == pc[p] \in {"save_store", "save_fill"}

\* ghost: the race of two hash shortenings that both missed the lookup
RaceUpdate(p) ==
    LET h == loc[p].hash
        racer == req[p].op = "hash" /\ Creating(p)
        other == \E q \in Procs \ {p} :
                    req[q].op = "hash" /\ Creating(q) /\ loc[q].hash = h
    IN  IF racer /\ other
          THEN /\ racePending' = racePending \cup {h}
               /\ raced' = raced
          ELSE IF racer /\ h \in racePending
                 THEN /\ racePending' = racePending \ {h}
                      /\ raced' = raced \cup {h}
                 ELSE UNCHANGED <<racePending, raced>>

\* the status with a failure of the publisher surfacing as 500
StatusCodeStrict(op, status, published) ==
    IF status = "ok" /\ published
      THEN IF op = "redirect" THEN 301 ELSE 200
      ELSE IF op = "redirect" /\ status = "notfound" THEN 404 ELSE 500

\* the status CreateShortURL and RedirectToURL answer with: an error of the
\* strategy is 500; ErrNotFound of GetByCode is 404 and another error 500;
\* whether the event was published plays no part (its error is only logged)
StatusCode(op, status, published) ==
    IF status = "ok"
      THEN IF op = "redirect" THEN 301 ELSE 200
      ELSE IF op = "redirect" /\ status = "notfound" THEN 404 ELSE 500

\* the Location header with the URL normalized
LocationNormalized(op, status, r) ==
    IF op = "redirect" /\ status = "ok" THEN NormalizeParsed(r.originalUrl) ELSE BadURL

\* RedirectToURL: resp.Headers.Location = shortURL.OriginalURL
Location(op, status, r) ==
    IF op = "redirect" /\ status = "ok" THEN r.originalUrl ELSE BadURL

\* the publish call made before the result of the strategy or of GetByCode
\* is looked at
PublishEventAlways(status, published) ==
    IF published THEN "published" ELSE "failed"

\* a URLCreatedEvent with the URL of the request body
URLCreatedEventOfRequest(shortURL, body) ==
    [code |-> shortURL.code, originalUrl |-> body.url,
     urlHash |-> shortURL.urlHash, createdAt |-> shortURL.createdAt,
     strategy |-> StrategyName(body.strategy)]

\* CreateShortURL: the URLCreatedEvent, built from the record the strategy
\* returned and the strategy name (client IP and user agent left out)
URLCreatedEvent(shortURL, body) ==
    [code |-> shortURL.code, originalUrl |-> shortURL.originalUrl,
     urlHash |-> shortURL.urlHash, createdAt |-> shortURL.createdAt,
     strategy |-> StrategyName(body.strategy)]

\* publishURLCreated / publishURLAccessed: called once the strategy or
\* GetByCode has returned without error
PublishEvent(status, published) ==
    IF status # "ok" THEN "none"
    ELSE IF published THEN "published" ELSE "failed"

\* the publish call returns nil (TRUE) or, with a publisher that can fail,
\* an error
PublishOutcomes == IF env.publisherFails THEN BOOLEAN ELSE {TRUE}

\* Shorten or GetByCode returns to the handler, which publishes the event
\* (the publisher can fail) and builds its answer
Return(p, status, r) ==
    /\ \E published \in PublishOutcomes :
         loc' = [loc EXCEPT ![p].status = status, ![p].rec = r,
                            ![p].created = (pc[p] = "save_fill"),
                            ![p].http = StatusCode(req[p].op, status, published),
                            ![p].location = Location(req[p].op, status, r),
                            ![p].event = PublishEvent(status, published),
                            ![p].created_events =
                                IF status = "ok" /\ req[p].op # "redirect"
                                  THEN <<URLCreatedEvent(r, req[p])>>
                                  ELSE <<>>]
    /\ pc' = [pc EXCEPT ![p] = "respond"]
    /\ RaceUpdate(p)
    /\ UNCHANGED req

\* the handler answers the request; the goroutine is free again
Respond(p) ==
    /\ pc[p] = "respond"
    /\ pc' = [pc EXCEPT ![p] = "idle"]
    /\ req' = [req EXCEPT ![p] = NoReq]
    /\ loc' = [q \in Procs |->
                 IF q = p THEN NoLoc ELSE [loc[q] EXCEPT !.after = @ \ {p}]]
    /\ UNCHANGED <<rlVars, env, issued, now, db, cacheEnt, cacheIdx, started, racePending, raced>>

\* CreateShortURL with a strategy name that is not in h.strategies:
\* Error400BadRequest, before any strategy is called
InvalidStrategy(p) ==
    \E u \in TokenURLs,
       name \in {n \in env.names : StrategyName(n) \notin Strategies} :
        /\ Begin(p, [op |-> "create", url |-> u, code |-> NoCode, strategy |-> name])
        /\ loc' = [loc EXCEPT ![p] =
                     [NoLoc EXCEPT !.status = "invalid", !.after = Returned,
                                   !.http = 400]]
        /\ pc' = [pc EXCEPT ![p] = "respond"]
        /\ UNCHANGED <<rlVars, env, issued, now, db, cacheEnt, cacheIdx, racePending, raced>>

(***************************************************************************)
(* TokenStrategy.Shorten: generate a code, build the record, then Save.     *)
(***************************************************************************)
\* a token strategy that looks the URL up first and returns its stored
\* record, if there is one
TokenStartDedup(p) ==
    \E u \in TokenURLs, c \in GenCodes,
       name \in {n \in env.names : StrategyName(n) = "token"} :
        /\ Begin(p, [op |-> "token", url |-> u, code |-> NoCode, strategy |-> name])
        /\ IF \E x \in db : x.originalUrl = u
             THEN /\ \E x \in {y \in db : y.originalUrl = u} :
                        loc' = [loc EXCEPT ![p] =
                                  [NoLoc EXCEPT !.rec = x, !.gen = c,
                                                !.status = "ok",
                                                !.after = Returned]]
                  /\ pc' = [pc EXCEPT ![p] = "respond"]
                  /\ UNCHANGED <<now, issued>>
             ELSE /\ loc' = [loc EXCEPT ![p] =
                               [NoLoc EXCEPT !.rec = ShortURL(c, u, EmptyHash, now),
                                             !.gen = c, !.after = Returned]]
                  /\ now' = ClockAfter(now)
                  /\ issued' = issued \cup {c}
                  /\ pc' = [pc EXCEPT ![p] = "save_store"]
        /\ UNCHANGED <<rlVars, env, db, cacheEnt, cacheIdx, racePending, raced>>

TokenStart(p) ==
    \E u \in TokenURLs, c \in GenCodes,
       name \in {n \in env.names : StrategyName(n) = "token"} :
        /\ Begin(p, [op |-> "token", url |-> u, code |-> NoCode, strategy |-> name])
        /\ loc' = [loc EXCEPT ![p] =
                     [NoLoc EXCEPT !.rec = ShortURL(c, u, EmptyHash, now),
                                   !.gen = c, !.after = Returned]]
        /\ now' = ClockAfter(now)
        /\ issued' = issued \cup {c}
        /\ pc' = [pc EXCEPT ![p] = "save_store"]
        /\ UNCHANGED <<rlVars, env, db, cacheEnt, cacheIdx, racePending, raced>>

(***************************************************************************)
(* HashStrategy.Shorten                                                    *)
(***************************************************************************)
\* NormalizeURL and HashURL; then the first call of GetByHash
HashStart(p) ==
    \E u \in {x \in ReqURLs \cup (IF env.spellings THEN {U2} ELSE {}) : x.valid},
       name \in {n \in env.names : StrategyName(n) = "hash"} :
        /\ Begin(p, [op |-> "hash", url |-> u, code |-> NoCode, strategy |-> name])
        /\ loc' = [loc EXCEPT ![p] =
                     [NoLoc EXCEPT !.hash = HashURL(NormalizeURL(u)),
                                   !.after = Returned,
                                   !.post = (HashURL(NormalizeURL(u)) \in raced)]]
        /\ pc' = [pc EXCEPT ![p] = "gh_index"]
        /\ UNCHANGED <<rlVars, env, issued, now, db, cacheEnt, cacheIdx, racePending, raced>>

\* an unparseable URL: Shorten returns the NormalizeURL error at once, and
\* the handler answers as for every error of the strategy
HashInvalid(p) ==
    \E u \in {x \in ReqURLs : ~x.valid},
       name \in {n \in env.names : StrategyName(n) = "hash"} :
        /\ Begin(p, [op |-> "hash", url |-> u, code |-> NoCode, strategy |-> name])
        /\ loc' = [loc EXCEPT ![p] =
                     [NoLoc EXCEPT !.status = "error", !.after = Returned,
                                   !.http = StatusCode("hash", "error", FALSE),
                                   !.event = PublishEvent("error", FALSE)]]
        /\ pc' = [pc EXCEPT ![p] = "respond"]
        /\ UNCHANGED <<rlVars, env, issued, now, db, cacheEnt, cacheIdx, racePending, raced>>

\* RedisCacheRepository.GetByHash: HGet on the hash index
GetByHashIndex(p) ==
    /\ pc[p] = "gh_index"
    /\ \E ok \in CacheOutcomes :
         IF HGetIndex(loc[p].hash, ok) # {}
           THEN \E c \in HGetIndex(loc[p].hash, ok) :
                  /\ loc' = [loc EXCEPT ![p].code = c]
                  /\ pc' = [pc EXCEPT ![p] = "gh_cache"]
           ELSE /\ loc' = loc
                /\ pc' = [pc EXCEPT ![p] = "gh_store"]
    /\ UNCHANGED <<rlVars, env, issued, now, db, cacheEnt, cacheIdx, req, started, racePending, raced>>

\* RedisCacheRepository.GetByHash: getFromCache of the indexed code; a hit
\* is returned by GetByHash and by Shorten (the existing record)
GetByHashCache(p) ==
    /\ pc[p] = "gh_cache"
    /\ \E ok \in CacheOutcomes :
         IF getFromCache(loc[p].code, ok) # {}
           THEN \E e \in getFromCache(loc[p].code, ok) : Return(p, "ok", e)
           ELSE /\ pc' = [pc EXCEPT ![p] = "gh_store"]
                /\ UNCHANGED <<req, loc, racePending, raced>>
    /\ UNCHANGED <<rlVars, env, issued, now, db, cacheEnt, cacheIdx, started>>

\* RedisCacheRepository.GetByHash: store.GetByHash finds the hash.  QueryRow
\* returns the first row of an unordered SELECT: any matching row.  An
\* error other than ErrNotFound is returned by Shorten.
GetByHashStore(p) ==
    /\ pc[p] = "gh_store"
    /\ PgRowsByHash(db, loc[p].hash) # {}
    /\ \E ok \in StoreOutcomes :
         IF ~ok
           THEN Return(p, "error", NoRec)
           ELSE \E x \in PgRowsByHash(db, loc[p].hash) :
                  /\ loc' = [loc EXCEPT ![p].rec = x]
                  /\ pc' = [pc EXCEPT ![p] = "gh_fill"]
                  /\ UNCHANGED <<req, racePending, raced>>
    /\ UNCHANGED <<rlVars, env, issued, now, db, cacheEnt, cacheIdx, started>>

\* store.GetByHash returns ErrNotFound (or fails): on ErrNotFound Shorten
\* generates a code and builds the record it is going to save
GetByHashMiss(p) ==
    /\ pc[p] = "gh_store"
    /\ PgRowsByHash(db, loc[p].hash) = {}
    /\ \E ok \in StoreOutcomes :
         IF ~ok
           THEN /\ Return(p, "error", NoRec)
                /\ UNCHANGED <<now, issued>>
           ELSE \E c \in GenCodes :
                  /\ loc' = [loc EXCEPT ![p].rec =
                               ShortURL(c, req[p].url, loc[p].hash, now),
                             ![p].gen = c]
                  /\ now' = ClockAfter(now)
                  /\ issued' = issued \cup {c}
                  /\ pc' = [pc EXCEPT ![p] = "save_store"]
                  /\ UNCHANGED <<req, racePending, raced>>
    /\ UNCHANGED <<rlVars, env, db, cacheEnt, cacheIdx, started>>

(***************************************************************************)
(* RedisCacheRepository.Save                                               *)
(***************************************************************************)
\* the cache is written before the store is asked
SaveStoreCacheFirst(p) ==
    /\ pc[p] = "save_store"
    /\ cacheURL(loc[p].rec, TRUE)
    /\ \E ok \in StoreOutcomes :
         IF ~ok
           THEN /\ Return(p, "error", NoRec)
                /\ db' = db
           ELSE /\ db' = PgSave(db, loc[p].rec)
                /\ pc' = [pc EXCEPT ![p] = "save_fill"]
                /\ UNCHANGED <<req, loc, racePending, raced>>
    /\ UNCHANGED <<rlVars, env, issued, now, started>>

\* RedisCacheRepository.Save, the call of store.Save: its error is returned
SaveStore(p) ==
    /\ pc[p] = "save_store"
    /\ \E ok \in StoreOutcomes :
         IF ~ok
           THEN /\ Return(p, "error", NoRec)
                /\ db' = db
           ELSE /\ db' = PgSave(db, loc[p].rec)
                /\ pc' = [pc EXCEPT ![p] = "save_fill"]
                /\ UNCHANGED <<req, loc, racePending, raced>>
    /\ UNCHANGED <<rlVars, env, issued, now, cacheEnt, cacheIdx, started>>

\* cacheURL after a successful store call (Save, GetByCode, GetByHash); the
\* record is then returned
CacheFill(p) ==
    /\ pc[p] \in {"save_fill", "gh_fill", "gc_fill"}
    /\ \E ok \in CacheOutcomes : cacheURL(loc[p].rec, ok)
    /\ Return(p, "ok", loc[p].rec)
    /\ UNCHANGED <<rlVars, env, issued, now, db, started>>

(***************************************************************************)
(* URLHandler.RedirectToURL: RedisCacheRepository.GetByCode                *)
(***************************************************************************)
RedirectStart(p) ==
    \E c \in Codes :
        /\ Begin(p, [op |-> "redirect", url |-> BadURL, code |-> c, strategy |-> ""])
        /\ loc' = [loc EXCEPT ![p] =
                     [NoLoc EXCEPT !.code = c, !.after = Returned]]
        /\ pc' = [pc EXCEPT ![p] = "gc_cache"]
        /\ UNCHANGED <<rlVars, env, issued, now, db, cacheEnt, cacheIdx, racePending, raced>>

\* an error of getFromCache is returned instead of asking the store
GetByCodeCacheStrict(p) ==
    /\ pc[p] = "gc_cache"
    /\ \E ok \in CacheOutcomes :
         IF ~ok
           THEN Return(p, "error", NoRec)
           ELSE IF getFromCache(loc[p].code, ok) # {}
                  THEN \E e \in getFromCache(loc[p].code, ok) : Return(p, "ok", e)
                  ELSE /\ pc' = [pc EXCEPT ![p] = "gc_store"]
                       /\ UNCHANGED <<req, loc, racePending, raced>>
    /\ UNCHANGED <<rlVars, env, issued, now, db, cacheEnt, cacheIdx, started>>

\* getFromCache: a hit is returned, an error counts as a miss
GetByCodeCache(p) ==
    /\ pc[p] = "gc_cache"
    /\ \E ok \in CacheOutcomes :
         IF getFromCache(loc[p].code, ok) # {}
           THEN \E e \in getFromCache(loc[p].code, ok) : Return(p, "ok", e)
           ELSE /\ pc' = [pc EXCEPT ![p] = "gc_store"]
                /\ UNCHANGED <<req, loc, racePending, raced>>
    /\ UNCHANGED <<rlVars, env, issued, now, db, cacheEnt, cacheIdx, started>>

\* a NotFound of the store is cached as an empty entity of the code
GetByCodeStoreNegative(p) ==
    /\ pc[p] = "gc_store"
    /\ \E ok \in StoreOutcomes :
         IF ~ok
           THEN /\ Return(p, "error", NoRec)
                /\ UNCHANGED <<cacheEnt, cacheIdx>>
           ELSE IF PgRowsByCode(db, loc[p].code) # {}
                  THEN \E x \in PgRowsByCode(db, loc[p].code) :
                         /\ loc' = [loc EXCEPT ![p].rec = x]
                         /\ pc' = [pc EXCEPT ![p] = "gc_fill"]
                         /\ UNCHANGED <<req, racePending, raced, cacheEnt, cacheIdx>>
                  ELSE /\ Return(p, "notfound", NoRec)
                       /\ cacheURL([NoRec EXCEPT !.code = loc[p].code], TRUE)
    /\ UNCHANGED <<rlVars, env, issued, now, db, started>>

\* store.GetByCode: its error (ErrNotFound included) is returned as it is
GetByCodeStore(p) ==
    /\ pc[p] = "gc_store"
    /\ \E ok \in StoreOutcomes :
         IF ~ok
           THEN Return(p, "error", NoRec)
           ELSE IF PgRowsByCode(db, loc[p].code) # {}
                  THEN \E x \in PgRowsByCode(db, loc[p].code) :
                         /\ loc' = [loc EXCEPT ![p].rec = x]
                         /\ pc' = [pc EXCEPT ![p] = "gc_fill"]
                         /\ UNCHANGED <<req, racePending, raced>>
                  ELSE Return(p, "notfound", NoRec)
    /\ UNCHANGED <<rlVars, env, issued, now, db, cacheEnt, cacheIdx, started>>

(***************************************************************************)
(* The environment                                                         *)
(***************************************************************************)
\* Redis expires a cached entity (the TTL set by cacheURL has run out); the
\* index url_hashes has no TTL
ExpireEntity ==
    /\ TTLEnabled
    /\ \E e \in cacheEnt : cacheEnt' = cacheEnt \ {e}
    /\ UNCHANGED <<rlVars, env, issued, now, db, cacheIdx, pc, req, loc, started, racePending, raced>>

(***************************************************************************)
(* Part 2: the rate limiter.                                               *)
(***************************************************************************)
\* Record keeps every timestamp, pruning none
ValidNoPrune(timestamps, t, window) == timestamps

\* RateLimitMemoryStore.Record, the timestamps kept: ts.After(now - window)
Valid(timestamps, t, window) ==
    SelectSeq(timestamps, LAMBDA ts : ts > t - window)

\* RateLimitMemoryStore.Record under its mutex: prune, append now, store,
\* return the length (the count is the last entry of calls'[key])
Record(key, window) ==
    /\ requests' = [requests EXCEPT ![key] = Append(Valid(@, rlNow, window), rlNow)]
    /\ calls' = [calls EXCEPT ![key] =
                   Append(@, [t |-> rlNow, w |-> window,
                              count |-> Len(requests'[key])])]

\* the count the Record call of this step returned
Count(key) == calls'[key][Len(calls'[key])].count

\* the clients that have sent a request
Seen ==
    {c \in Clients : \/ pl.clientKey = c
                     \/ mw.client = c
                     \/ \E i \in 1..Len(log) : log[i].client = c
                     \/ \E k \in Keys : k[1] = c /\ calls[k] # <<>>}

\* the clients a request can come from: clients are interchangeable, so a
\* client sending its first request is named by the next name in ClientSeq
Senders ==
    Seen \cup {ClientSeq[i] : i \in {j \in 1..Len(ClientSeq) :
                                   /\ ClientSeq[j] \notin Seen
                                   /\ \A k \in 1..(j - 1) : ClientSeq[k] \in Seen}}

\* a new call starts
StartOp ==
    /\ ops < MaxOps
    /\ ops' = ops + 1

\* a caller uses the store directly
RecordCall ==
    \E key \in DirectKeys, window \in DirectWindows :
        /\ StartOp
        /\ Record(key, window)
        /\ UNCHANGED <<engineVars, mwVars, rlNow, verdicts, pl>>

\* SlidingWindowLimiter.Allow with <= replaced by <
WithinLimitStrict(count, limit) == count < limit

\* SlidingWindowLimiter.Allow: count <= l.limit
WithinLimit(count, limit) == count <= limit

\* SlidingWindowLimiter.Allow
SlidingAllow ==
    \E c \in Senders :
        /\ StartOp
        /\ Record(SlideKey(c), SlideConfig.window)
        /\ verdicts' = [verdicts EXCEPT ![SlideKey(c)] =
                          Append(@, WithinLimit(Count(SlideKey(c)), SlideConfig.max))]
        /\ UNCHANGED <<engineVars, mwVars, rlNow, pl>>

\* time passes
Tick ==
    /\ rlNow < MaxTime
    /\ rlNow' = rlNow + 1
    /\ UNCHANGED <<engineVars, mwVars, requests, calls, verdicts, pl, ops>>

(***************************************************************************)
(* PolicyLimiter.Allow: the loop over the scopes and, per scope, over the   *)
(* limits registered for it.  Each Record call is one step.                *)
(***************************************************************************)
\* count > limit.Max with > replaced by >=
ExceedsFromMax(count, limit) == count >= limit.max

\* count > limit.Max
Exceeds(count, limit) == count > limit.max

\* Allow is called with a client key and the scopes the resolver returned
\* (pl keeps the result of the previous call until then)
PolicyStart ==
    \E c \in Senders, ss \in ScopeLists :
        /\ pl.state \in {"idle", "done"}
        /\ StartOp
        /\ pl' = [NoCall EXCEPT !.state = "loop", !.clientKey = c, !.scopes = ss]
        /\ UNCHANGED <<engineVars, mwVars, rlNow, requests, calls, verdicts>>

\* the scope of this iteration has no limits: continue
PolicySkipScope ==
    /\ pl.state = "loop"
    /\ pl.si <= Len(pl.scopes)
    /\ pl.scopes[pl.si] \notin DOMAIN PolicyLimits
    /\ pl' = [pl EXCEPT !.si = @ + 1, !.li = 1]
    /\ UNCHANGED <<engineVars, mwVars, rlNow, requests, calls, verdicts, ops>>

\* one iteration of the inner loop that counts the request only when the
\* limit is not exceeded
PolicyRecordPeek ==
    /\ pl.state = "loop"
    /\ pl.si <= Len(pl.scopes)
    /\ pl.scopes[pl.si] \in DOMAIN PolicyLimits
    /\ LET scope == pl.scopes[pl.si]
           limits == PolicyLimits[scope]
           limit == limits[pl.li]
           key == buildKey(pl.clientKey, scope, limit)
           count == Len(Valid(requests[key], rlNow, limit.window)) + 1
           entry == [scope |-> scope, config |-> limit, count |-> count]
       IN  IF Exceeds(count, limit)
             THEN /\ UNCHANGED <<requests, calls, verdicts>>
                  /\ pl' = [pl EXCEPT !.state = "done", !.allowed = FALSE,
                                       !.exceeded = entry,
                                       !.trace = Append(@, entry)]
             ELSE /\ Record(key, limit.window)
                  /\ verdicts' = [verdicts EXCEPT ![key] = Append(@, TRUE)]
                  /\ pl' = [pl EXCEPT !.trace = Append(@, entry),
                                       !.li = IF pl.li < Len(limits) THEN @ + 1 ELSE 1,
                                       !.si = IF pl.li < Len(limits) THEN @ ELSE @ + 1]
    /\ UNCHANGED <<engineVars, mwVars, rlNow, ops>>

\* one iteration of the inner loop: build the key, Record, compare
PolicyRecord ==
    /\ pl.state = "loop"
    /\ pl.si <= Len(pl.scopes)
    /\ pl.scopes[pl.si] \in DOMAIN PolicyLimits
    /\ LET scope == pl.scopes[pl.si]
           limits == PolicyLimits[scope]
           limit == limits[pl.li]
           key == buildKey(pl.clientKey, scope, limit)
           entry == [scope |-> scope, config |-> limit, count |-> Count(key)]
       IN  /\ Record(key, limit.window)
           /\ verdicts' = [verdicts EXCEPT ![key] =
                             Append(@, ~Exceeds(Count(key), limit))]
           /\ IF Exceeds(Count(key), limit)
                THEN pl' = [pl EXCEPT !.state = "done", !.allowed = FALSE,
                                      !.exceeded = entry,
                                      !.trace = Append(@, entry)]
                ELSE pl' = [pl EXCEPT !.trace = Append(@, entry),
                                      !.li = IF pl.li < Len(limits) THEN @ + 1 ELSE 1,
                                      !.si = IF pl.li < Len(limits) THEN @ ELSE @ + 1]
    /\ UNCHANGED <<engineVars, mwVars, rlNow, ops>>

\* both loops are over: return true, nil, nil
PolicyAllowed ==
    /\ pl.state = "loop"
    /\ pl.si > Len(pl.scopes)
    /\ pl' = [pl EXCEPT !.state = "done", !.allowed = TRUE]
    /\ UNCHANGED <<engineVars, mwVars, rlNow, requests, calls, verdicts, ops>>

\* the store returns an error (a Store other than the memory store can):
\* Allow returns false, nil, err at once; no counter has changed
PolicyRecordFails ==
    /\ pl.state = "loop"
    /\ pl.si <= Len(pl.scopes)
    /\ pl.scopes[pl.si] \in DOMAIN PolicyLimits
    /\ LET scope == pl.scopes[pl.si]
           limit == PolicyLimits[scope][pl.li]
       IN  pl' = [pl EXCEPT !.state = "done", !.allowed = FALSE, !.err = TRUE,
                            !.trace = Append(@, [scope |-> scope, config |-> limit,
                                                 count |-> 0])]
    /\ UNCHANGED <<engineVars, mwVars, rlNow, requests, calls, verdicts, ops>>

(***************************************************************************)
(* The middleware PolicyRateLimiter, wired with the PolicyLimiter and the   *)
(* OperationScopeResolver.  One request at a time; each Record call is one  *)
(* step.  A call that has returned is appended to log.                      *)
(***************************************************************************)
\* the status of the answer when next, the handler, has run
StatusOK == 200

\* next(ctx)
CallNext(m) == [m EXCEPT !.state = "done", !.nexts = @ + 1, !.status = StatusOK]

\* huma.WriteErr with 500 and return, next not called, with fail-open instead
OnStoreErrorFailOpen(m) == [CallNext(m) EXCEPT !.failed = TRUE]

\* the store returned an error: huma.WriteErr with 500 and return
OnStoreError(m) == [m EXCEPT !.state = "done", !.failed = TRUE, !.status = 500]

\* handleRateLimitExceeded, and the same in checkCustomLimits (whose message
\* names no scope): huma.WriteErr with 429, naming e.count/e.config.max
TooManyRequests(m, e) == [m EXCEPT !.state = "done", !.status = 429, !.exceeded = e]

\* a new request starts
StartCall ==
    /\ ops < MaxCalls
    /\ ops' = ops + 1

\* a request arrives at the middleware
Arrive(c, o) == [NoMW EXCEPT !.client = c, !.op = o, !.at = rlNow]

\* handleEndpointConfig, cfg.Disabled, with the request counted on the way
MWDisabledCounted ==
    \E c \in Senders, o \in Operations :
        /\ mw.state = "idle" /\ pl.state = "idle"
        /\ ~GetEndpointConfig(o).nil /\ GetEndpointConfig(o).disabled
        /\ StartCall
        /\ Record(buildKey(c, "global", PolicyLimits["global"][1]),
                  PolicyLimits["global"][1].window)
        /\ log' = Append(log, CallNext(Arrive(c, o)))
        /\ UNCHANGED <<engineVars, rlNow, verdicts, pl, mw, libVars>>

\* handleEndpointConfig, cfg.Disabled: next(ctx), nothing else
MWDisabled ==
    \E c \in Senders, o \in Operations :
        /\ mw.state = "idle" /\ pl.state = "idle"
        /\ ~GetEndpointConfig(o).nil /\ GetEndpointConfig(o).disabled
        /\ StartCall
        /\ log' = Append(log, CallNext(Arrive(c, o)))
        /\ UNCHANGED <<engineVars, rlNow, requests, calls, verdicts, pl, mw,
                       libVars>>

\* handleEndpointConfig, len(cfg.Limits) > 0: checkCustomLimits starts (its
\* operation is not nil, since the configuration came from it)
MWCustomStart ==
    \E c \in Senders, o \in Operations :
        /\ mw.state = "idle" /\ pl.state = "idle"
        /\ ~GetEndpointConfig(o).nil /\ ~GetEndpointConfig(o).disabled
        /\ Len(GetEndpointConfig(o).limits) > 0
        /\ StartCall
        /\ mw' = [Arrive(c, o) EXCEPT !.state = "custom"]
        /\ UNCHANGED <<engineVars, rlNow, requests, calls, verdicts, pl, log,
                       libVars>>

\* one iteration of the loop of checkCustomLimits: build the key, Record,
\* compare; after the last limit handleEndpointConfig calls next
MWCustomRecord ==
    /\ mw.state = "custom"
    /\ LET limits == GetEndpointConfig(mw.op).limits
           limit == limits[mw.li]
           key == customKey(mw.client, mw.op.path, limit)
           entry == [scope |-> "", config |-> limit, count |-> Count(key)]
           m == [mw EXCEPT !.trace = Append(@, entry)]
       IN  /\ Record(key, limit.window)
           /\ IF Exceeds(Count(key), limit)
                THEN /\ log' = Append(log, TooManyRequests(m, entry))
                     /\ mw' = NoMW
                ELSE IF mw.li < Len(limits)
                       THEN /\ mw' = [m EXCEPT !.li = @ + 1]
                            /\ log' = log
                       ELSE /\ log' = Append(log, CallNext(m))
                            /\ mw' = NoMW
    /\ UNCHANGED <<engineVars, rlNow, verdicts, pl, ops, libVars>>

\* the store returns an error in checkCustomLimits: 500, false
MWCustomRecordFails ==
    /\ mw.state = "custom"
    /\ LET limit == GetEndpointConfig(mw.op).limits[mw.li]
           entry == [scope |-> "", config |-> limit, count |-> 0]
       IN  log' = Append(log, OnStoreError([mw EXCEPT !.trace = Append(@, entry)]))
    /\ mw' = NoMW
    /\ UNCHANGED <<engineVars, rlNow, requests, calls, verdicts, pl, ops,
                   libVars>>

\* no endpoint configuration, or one without limits: the client key, the
\* scopes of the resolver, limiter.Allow
MWPolicyStart ==
    \E c \in Senders, o \in Operations :
        /\ mw.state = "idle" /\ pl.state = "idle"
        /\ \/ GetEndpointConfig(o).nil
           \/ ~GetEndpointConfig(o).disabled /\ Len(GetEndpointConfig(o).limits) = 0
        /\ StartCall
        /\ mw' = [Arrive(c, o) EXCEPT !.state = "policy", !.scopes = Resolve(o)]
        /\ pl' = [NoCall EXCEPT !.state = "loop", !.clientKey = c,
                                !.scopes = Resolve(o)]
        /\ UNCHANGED <<engineVars, rlNow, requests, calls, verdicts, log,
                       libVars>>

\* limiter.Allow has returned: 500 on an error, 429 when a limit is
\* exceeded, next otherwise
MWPolicyDone ==
    /\ mw.state = "policy"
    /\ pl.state = "done"
    /\ LET m == [mw EXCEPT !.trace = pl.trace]
       IN  log' = Append(log, IF pl.err THEN OnStoreError(m)
                              ELSE IF ~pl.allowed THEN TooManyRequests(m, pl.exceeded)
                              ELSE CallNext(m))
    /\ mw' = NoMW
    /\ pl' = NoCall
    /\ UNCHANGED <<engineVars, rlNow, requests, calls, verdicts, ops, libVars>>

(***************************************************************************)
(* The scope resolver on its own: a pure function of the method and the    *)
(* operation metadata of the request.                                      *)
(***************************************************************************)
\* HTTP methods
Methods == {"GET", "HEAD", "OPTIONS", "POST", "PUT", "PATCH", "DELETE", "get"}

\* the scopes an EndpointConfig can name ("": none)
ConfigScopes == {"", "read", "write", "admin"}

\* the requests a resolver is called with
Contexts ==
    {Operation(m, "/x", TRUE, "config", EndpointConfig(sc, d, l)) :
        m \in Methods, sc \in ConfigScopes, d \in BOOLEAN,
        l \in {<<>>, <<Limit(1, 1)>>}}
    \cup {Operation(m, "/x", TRUE, k, EndpointConfig(sc, FALSE, <<>>)) :
             m \in Methods, k \in {"nil", "nokey", "wrongtype"}, sc \in {"", "admin"}}
    \cup {Operation(m, "", FALSE, "nil", NilConfig) : m \in Methods}

\* OperationScopeResolver.Resolve is called
ResolveCall ==
    \E o \in Contexts :
        /\ rctx' = o
        /\ rscopes' = Resolve(o)
        /\ UNCHANGED <<engineVars, rlNow, requests, calls, verdicts, pl, ops, mw, log, conc,
                       nin, nout, cg, workers, msgs>>

ResolverSpec == Init /\ [][ResolveCall]_vars

\* the normaliser: a pair of raw URLs at hand
NormInit ==
    \E a \in NormURLs, b \in NormURLs :
        StartWith(Env(MaxReqs, FALSE, Strategies), <<a, b>>)

\* NormalizeURL and HashURL are called on the two raw URLs, and NormalizeURL
\* again on the string it returned for the first
NormalizeCall ==
    /\ nout = NoNorm
    /\ nout' = [a |-> NormalizeURL(nin[1]),
                b |-> NormalizeURL(nin[2]),
                ha |-> HashURL(NormalizeURL(nin[1])),
                hb |-> HashURL(NormalizeURL(nin[2])),
                aa |-> NormalizeURL(ParseURL(NormalizeURL(nin[1])))]
    /\ UNCHANGED <<engineVars, rlNow, requests, calls, verdicts, pl, ops, mw, log, conc,
                   rctx, rscopes, nin, cg, workers, msgs>>

NormSpec == NormInit /\ [][NormalizeCall]_vars

(***************************************************************************)
(* Part 7 (CGSpec): the ConsumerGroup and the loops of its consumers.      *)
(* cg.op is the call the group is in: "start" (Start, about to start       *)
(* consumer cg.i), "rollback" (Start, shutting down consumer cg.i after a  *)
(* failure), "failed" (Start has returned an error), "running" (Start has  *)
(* returned nil), "shutdown" (Shutdown, at consumer cg.i or, past the      *)
(* last, at subscriber.Close), "down" (Shutdown has returned cg.firstErr). *)
(* Errors are named by where they come from: consumer j, or the number of  *)
(* consumers plus one for subscriber.Close; 0 is nil.  A consumer that has *)
(* not been started has no loop (loop = "none").                           *)
(***************************************************************************)
\* Consumer.handleMessage with an Ack after a handler error
handleMessageAckAlways(valid, handlerOk) ==
    IF ~valid
      THEN [handled |-> 0, acks |-> 0, nacks |-> 1]
      ELSE [handled |-> 1, acks |-> 1, nacks |-> 0]

\* Consumer.handleMessage with neither Ack nor Nack after a handler error
handleMessageDrop(valid, handlerOk) ==
    IF ~valid
      THEN [handled |-> 0, acks |-> 0, nacks |-> 1]
      ELSE IF ~handlerOk
             THEN [handled |-> 1, acks |-> 0, nacks |-> 0]
             ELSE [handled |-> 1, acks |-> 1, nacks |-> 0]

\* Consumer.handleMessage: what becomes of a message whose payload does or
\* does not unmarshal and whose handler does or does not return nil
handleMessage(valid, handlerOk) ==
    IF ~valid
      THEN [handled |-> 0, acks |-> 0, nacks |-> 1]
      ELSE IF ~handlerOk
             THEN [handled |-> 1, acks |-> 0, nacks |-> 1]
             ELSE [handled |-> 1, acks |-> 1, nacks |-> 0]

\* ConsumerGroup.Start without the rollback loop
RollbackFromNone(i) == 0

\* ConsumerGroup.Start: the consumer the rollback loop begins with
RollbackFrom(i) == i - 1

\* ConsumerGroup.Shutdown keeping the last error
FirstErrLast(firstErr, err) == IF err # 0 THEN err ELSE firstErr

\* ConsumerGroup.Shutdown: if err != nil && firstErr == nil { firstErr = err }
FirstErr(firstErr, err) == IF err # 0 /\ firstErr = 0 THEN err ELSE firstErr

\* Consumer.Shutdown without the receive from done
DoneClosedAlways(j) == TRUE

\* Consumer.Shutdown, <-c.done: the receive returns once consumeLoop of
\* consumer j has returned and its deferred close(c.done) has run
DoneClosed(j) == workers[j].loop = "exited"

\* Runnable.Shutdown of consumer j is entered: Consumer.Shutdown cancels
\* the context of the loop
ShutdownEnter(j) ==
    /\ ~workers[j].cancelled
    /\ workers' = [workers EXCEPT ![j].cancelled = TRUE]
    /\ UNCHANGED <<cg, msgs>>

\* ConsumerGroup.Start: consumer.Start of consumer cg.i returns
GroupStartStep ==
    /\ cg.op = "start"
    /\ \E ok \in BOOLEAN :
         IF ok
           THEN /\ workers' = [workers EXCEPT ![cg.i].started = TRUE,
                                               ![cg.i].loop = "idle"]
                /\ cg' = IF cg.i = Cardinality(GroupConsumers)
                           THEN [cg EXCEPT !.op = "running"]
                           ELSE [cg EXCEPT !.i = @ + 1]
           ELSE /\ workers' = workers
                /\ cg' = [cg EXCEPT !.op = IF RollbackFrom(cg.i) = 0
                                             THEN "failed" ELSE "rollback",
                                    !.failedAt = cg.i,
                                    !.i = RollbackFrom(cg.i)]
    /\ UNCHANGED <<engineVars, rlNow, requests, calls, verdicts, pl, ops, mw, log, conc,
                   rctx, rscopes, nin, nout, msgs>>

\* ConsumerGroup.Start, the rollback loop: Shutdown of consumer cg.i is
\* entered, or returns (its error is dropped) once the loop has exited
RollbackStep ==
    /\ cg.op = "rollback"
    /\ \/ ShutdownEnter(cg.i)
       \/ /\ workers[cg.i].cancelled
          /\ DoneClosed(cg.i)
          /\ workers' = [workers EXCEPT ![cg.i].shutdown = TRUE]
          /\ cg' = IF cg.i = 1 THEN [cg EXCEPT !.op = "failed", !.i = 0]
                               ELSE [cg EXCEPT !.i = @ - 1]
          /\ msgs' = msgs
    /\ UNCHANGED <<engineVars, rlNow, requests, calls, verdicts, pl, ops, mw, log, conc,
                   rctx, rscopes, nin, nout>>

\* ConsumerGroup.Shutdown is called after Start has returned nil; the
\* consumer process cancels the context it gave to Start before that, a
\* test does not
GroupShutdownCall ==
    /\ cg.op = "running"
    /\ cg' = [cg EXCEPT !.op = "shutdown", !.i = 1]
    /\ \E rootCancel \in BOOLEAN :
         workers' = [j \in GroupConsumers |->
                       [workers[j] EXCEPT !.cancelled = rootCancel]]
    /\ UNCHANGED <<engineVars, rlNow, requests, calls, verdicts, pl, ops, mw, log, conc,
                   rctx, rscopes, nin, nout, msgs>>

\* ConsumerGroup.Shutdown, the loop: Shutdown of consumer cg.i is entered,
\* or returns once the loop has exited (a Runnable may return an error)
GroupShutdownStep ==
    /\ cg.op = "shutdown"
    /\ cg.i <= Cardinality(GroupConsumers)
    /\ \/ ShutdownEnter(cg.i)
       \/ /\ workers[cg.i].cancelled
          /\ DoneClosed(cg.i)
          /\ workers' = [workers EXCEPT ![cg.i].shutdown = TRUE]
          /\ \E err \in {0, cg.i} :
               cg' = [cg EXCEPT !.i = @ + 1,
                                !.firstErr = FirstErr(@, err),
                                !.errs = IF err # 0 THEN Append(@, err) ELSE @]
          /\ msgs' = msgs
    /\ UNCHANGED <<engineVars, rlNow, requests, calls, verdicts, pl, ops, mw, log, conc,
                   rctx, rscopes, nin, nout>>

\* ConsumerGroup.Shutdown: subscriber.Close, then return firstErr
GroupClose ==
    /\ cg.op = "shutdown"
    /\ cg.i > Cardinality(GroupConsumers)
    /\ \E err \in {0, Cardinality(GroupConsumers) + 1} :
         cg' = [cg EXCEPT !.op = "down", !.closed = TRUE,
                          !.firstErr = FirstErr(@, err),
                          !.errs = IF err # 0 THEN Append(@, err) ELSE @]
    /\ UNCHANGED <<engineVars, rlNow, requests, calls, verdicts, pl, ops, mw, log, conc,
                   rctx, rscopes, nin, nout, workers, msgs>>

\* consumeLoop of consumer j receives a message (a select with a
\* cancelled context may still take this branch)
Take(j) ==
    /\ workers[j].loop = "idle"
    /\ ~cg.closed
    /\ Len(msgs) < env.msgs
    /\ \E valid \in BOOLEAN :
         msgs' = Append(msgs, [w |-> j, valid |-> valid, handlerOk |-> FALSE,
                               done |-> FALSE, handled |-> 0, acks |-> 0,
                               nacks |-> 0, again |-> FALSE])
    /\ workers' = [workers EXCEPT ![j].loop = "busy"]
    /\ UNCHANGED <<engineVars, rlNow, requests, calls, verdicts, pl, ops, mw, log, conc,
                   rctx, rscopes, nin, nout, cg>>

\* consumeLoop of consumer j: handleMessage of the message it has taken
HandleMessage(j) ==
    /\ workers[j].loop = "busy"
    /\ \E m \in 1..Len(msgs), handlerOk \in BOOLEAN :
         /\ msgs[m].w = j
         /\ ~msgs[m].done
         /\ LET out == handleMessage(msgs[m].valid, handlerOk)
            IN  msgs' = [msgs EXCEPT ![m] =
                           [@ EXCEPT !.done = TRUE,
                                     !.handlerOk = out.handled = 1 /\ handlerOk,
                                     !.handled = out.handled,
                                     !.acks = out.acks,
                                     !.nacks = out.nacks]]
    /\ workers' = [workers EXCEPT ![j].loop = "idle"]
    /\ UNCHANGED <<engineVars, rlNow, requests, calls, verdicts, pl, ops, mw, log, conc,
                   rctx, rscopes, nin, nout, cg>>

\* consumeLoop of consumer j: <-ctx.Done(), the loop returns and closes done
WorkerExit(j) ==
    /\ workers[j].loop = "idle"
    /\ workers[j].cancelled
    /\ workers' = [workers EXCEPT ![j].loop = "exited"]
    /\ UNCHANGED <<engineVars, rlNow, requests, calls, verdicts, pl, ops, mw, log, conc,
                   rctx, rscopes, nin, nout, cg, msgs>>

CGNext ==
    \/ GroupStartStep
    \/ RollbackStep
    \/ GroupShutdownCall
    \/ GroupShutdownStep
    \/ GroupClose
    \/ \E j \in GroupConsumers : Take(j)
    \/ \E j \in GroupConsumers : HandleMessage(j)
    \/ \E j \in GroupConsumers : WorkerExit(j)

CGSpec == Init /\ [][CGNext]_vars

(***************************************************************************)
(* Part 8 (CGLiveSpec): the ConsumerGroup with a transport that delivers   *)
(* a nacked message again, with Shutdown called in any state of the group, *)
(* and with fairness.  The goroutines of the loops and the goroutine       *)
(* calling Start or Shutdown keep running (weak fairness of their steps);  *)
(* the transport delivers every nacked message again while the context of  *)
(* the subscription is live, so the messages whose payload unmarshals are  *)
(* not kept waiting for ever behind the others (strong fairness of their   *)
(* redelivery, which can happen only when the loop is free); the handler   *)
(* returns nil in the end (strong fairness of the handling that succeeds,  *)
(* which happens at most once for a message).                              *)
(***************************************************************************)
\* ConsumerGroup.Shutdown is called when Start has not been called, after
\* Start has returned an error, or after an earlier Shutdown has returned;
\* firstErr is a local variable of the call
GroupShutdownOther ==
    /\ \/ cg.op = "start" /\ cg.i = 1
       \/ cg.op = "failed"
       \/ cg.op = "down"
    /\ cg' = [cg EXCEPT !.op = "shutdown", !.i = 1, !.firstErr = 0,
                        !.errs = <<>>]
    /\ UNCHANGED <<engineVars, rlNow, requests, calls, verdicts, pl, ops, mw, log, conc,
                   rctx, rscopes, nin, nout, workers, msgs>>

\* the transport delivers message m, which consumer j nacked, again and
\* consumeLoop of consumer j receives it; Subscribe was given the context
\* of the consumer, and delivers nothing once that is cancelled
Redeliver(j, m) ==
    /\ workers[j].loop = "idle"
    /\ ~workers[j].cancelled
    /\ ~cg.closed
    /\ m \in 1..Len(msgs)
    /\ msgs[m].w = j
    /\ msgs[m].done
    /\ msgs[m].nacks = 1
    /\ msgs' = [msgs EXCEPT ![m] = [@ EXCEPT !.done = FALSE, !.handled = 0,
                                             !.nacks = 0, !.again = TRUE]]
    /\ workers' = [workers EXCEPT ![j].loop = "busy"]
    /\ UNCHANGED <<engineVars, rlNow, requests, calls, verdicts, pl, ops, mw, log, conc,
                   rctx, rscopes, nin, nout, cg>>

\* handleMessage of a message with a handler that returns nil
HandleOk ==
    \E m \in 1..Len(msgs) :
        /\ ~msgs[m].done
        /\ HandleMessage(msgs[m].w)
        /\ msgs'[m].handlerOk

CGLiveInit == Start([Env(MaxReqs, FALSE, Strategies) EXCEPT !.msgs = MaxLiveMsgs])

CGLiveNext ==
    \/ CGNext
    \/ GroupShutdownOther
    \/ \E j \in GroupConsumers, m \in 1..MaxLiveMsgs : Redeliver(j, m)

CGLiveSpec ==
    /\ CGLiveInit
    /\ [][CGLiveNext]_vars
    /\ WF_vars(RollbackStep)
    /\ WF_vars(GroupShutdownStep)
    /\ WF_vars(GroupClose)
    /\ \A j \in GroupConsumers :
         WF_vars(HandleMessage(j)) /\ WF_vars(WorkerExit(j))
    /\ SF_vars(HandleOk)
    /\ SF_vars(\E j \in GroupConsumers, m \in 1..MaxLiveMsgs :
                    Redeliver(j, m) /\ msgs[m].valid)

MWNext ==
    \/ Tick
    \/ MWDisabled
    \/ MWCustomStart
    \/ MWCustomRecord
    \/ MWCustomRecordFails
    \/ MWPolicyStart
    \/ PolicySkipScope
    \/ PolicyRecord
    \/ PolicyRecordFails
    \/ PolicyAllowed
    \/ MWPolicyDone

\* the middleware with a store whose Record can fail
MWSpec == Init /\ [][MWNext]_vars

(***************************************************************************)
(* Part 9 (ConcSpec): Record called by several goroutines on one key with  *)
(* one window.  A goroutine is not in callers (before s.mu.Lock()), or at  *)
(* "locked" (Lock has returned), "read" (valid has been built from         *)
(* s.requests[key] and now), or "done" (s.requests[key] written, count     *)
(* returned, mutex released by the deferred Unlock).                       *)
(***************************************************************************)
\* a mutex that never blocks
LockableAlways(m) == TRUE

\* sync.Mutex.Lock returns only when no goroutine holds the mutex
Lockable(m) == m = 0

ConcInit ==
    \E w \in DirectWindows :
        Start([Env(MaxReqs, FALSE, Strategies) EXCEPT !.window = w])

\* Record of goroutine g: s.mu.Lock()
CallLock(g) ==
    /\ g \notin DOMAIN conc.callers
    /\ Lockable(conc.mu)
    /\ conc' = [mu |-> g,
               callers |-> conc.callers @@
                             (g :> [pc |-> "locked", now |-> 0, valid |-> <<>>,
                                    count |-> 0])]
    /\ UNCHANGED <<engineVars, rlNow, requests, calls, verdicts, pl, ops, mw, log,
                   rctx, rscopes, nin, nout, cg, workers, msgs>>

\* Record of goroutine g: now, cutoff, timestamps := s.requests[key], the
\* loop that keeps the timestamps after the cutoff, append(valid, now)
CallRead(g) ==
    /\ g \in DOMAIN conc.callers
    /\ conc.callers[g].pc = "locked"
    /\ \E key \in DirectKeys :
         conc' = [conc EXCEPT
                   !.callers[g].pc = "read",
                   !.callers[g].now = rlNow,
                   !.callers[g].valid =
                       Append(Valid(requests[key], rlNow, env.window), rlNow)]
    /\ UNCHANGED <<engineVars, rlNow, requests, calls, verdicts, pl, ops, mw, log,
                   rctx, rscopes, nin, nout, cg, workers, msgs>>

\* Record of goroutine g: s.requests[key] = valid, return len(valid), and
\* the deferred s.mu.Unlock()
CallReturn(g) ==
    /\ g \in DOMAIN conc.callers
    /\ conc.callers[g].pc = "read"
    /\ \E key \in DirectKeys :
         requests' = [requests EXCEPT ![key] = conc.callers[g].valid]
    /\ conc' = [conc EXCEPT !.mu = 0,
                          !.callers[g].pc = "done",
                          !.callers[g].count = Len(conc.callers[g].valid)]
    /\ UNCHANGED <<engineVars, rlNow, calls, verdicts, pl, ops, mw, log,
                   rctx, rscopes, nin, nout, cg, workers, msgs>>

ConcSpec ==
    ConcInit /\ [][\/ \E g \in Callers : CallLock(g)
                   \/ \E g \in Callers : CallRead(g)
                   \/ \E g \in Callers : CallReturn(g)
                   \/ Tick]_vars

RLNext ==
    \/ RecordCall
    \/ SlidingAllow
    \/ Tick
    \/ PolicyStart
    \/ PolicySkipScope
    \/ PolicyRecord
    \/ PolicyAllowed

RLSpec == Init /\ [][RLNext]_vars

Next ==
    \/ \E p \in Procs : TokenStart(p)
    \/ \E p \in Procs : HashStart(p)
    \/ \E p \in Procs : HashInvalid(p)
    \/ \E p \in Procs : GetByHashIndex(p)
    \/ \E p \in Procs : GetByHashCache(p)
    \/ \E p \in Procs : GetByHashStore(p)
    \/ \E p \in Procs : GetByHashMiss(p)
    \/ \E p \in Procs : SaveStore(p)
    \/ \E p \in Procs : CacheFill(p)
    \/ \E p \in Procs : RedirectStart(p)
    \/ \E p \in Procs : GetByCodeCache(p)
    \/ \E p \in Procs : GetByCodeStore(p)
    \/ \E p \in Procs : Respond(p)
    \/ ExpireEntity

Spec == Init /\ [][Next]_vars

\* the handlers with every request body and a publisher that can fail
HNext ==
    \/ Next
    \/ \E p \in Procs : InvalidStrategy(p)

HSpec == HInit /\ [][HNext]_vars

\* Redis is down, PostgreSQL is up
DownInit == Start(EnvOf(MaxHReqs, TRUE, Strategies, TRUE, TRUE))

\* the steps that can be taken while Redis is down: getFromCache of an
\* indexed code is never reached and nothing is cached that could expire
DownNext ==
    \/ \E p \in Procs : TokenStart(p)
    \/ \E p \in Procs : HashStart(p)
    \/ \E p \in Procs : HashInvalid(p)
    \/ \E p \in Procs : GetByHashIndex(p)
    \/ \E p \in Procs : GetByHashStore(p)
    \/ \E p \in Procs : GetByHashMiss(p)
    \/ \E p \in Procs : SaveStore(p)
    \/ \E p \in Procs : CacheFill(p)
    \/ \E p \in Procs : RedirectStart(p)
    \/ \E p \in Procs : GetByCodeCache(p)
    \/ \E p \in Procs : GetByCodeStore(p)
    \/ \E p \in Procs : Respond(p)

\* the engine under the handlers with the cache offline
DownSpec == DownInit /\ [][DownNext]_vars

TypeOK ==
    /\ now \in 0..MaxNow
    /\ \A p \in Procs : pc[p] \in {"idle", "gh_index", "gh_cache", "gh_store",
                                   "gh_fill", "save_store", "save_fill", "gc_cache",
                                   "gc_store", "gc_fill", "respond"}
    /\ started \in 0..MaxReqs
    /\ rlNow \in 0..MaxTime
    /\ ops \in 0..MaxOps
    /\ \A k \in Keys : Len(requests[k]) <= Len(calls[k])

(***************************************************************************)
(* Properties of the shortening engine (checked under Spec).               *)
(***************************************************************************)
\* p serves a request of kind op whose Shorten or GetByCode call has
\* returned without error
Done(p, op) == pc[p] = "respond" /\ req[p].op = op /\ loc[p].status = "ok"

\* the record p's call returned is a row of the durable store
Stored(p) == PgRow(loc[p].rec) \in db

\* C1: of two sequential hash shortenings of one URL (the first had returned
\* a stored record when the second started) the second returns the code the
\* first returned and creates no record.
C1_SequentialSameCode ==
    \A p \in Procs : \A q \in loc[p].after :
        (/\ Done(p, "hash")
         /\ Done(q, "hash")
         /\ Stored(q)
         /\ req[p].url = req[q].url)
            => (loc[p].rec.code = loc[q].rec.code /\ ~loc[p].created)

\* C2: the durable store holds at most one record per non-empty urlHash,
\* whatever the interleaving of the hash shortenings.
C2_OneRecordPerHash ==
    \A x \in db : \A y \in db :
        (x.urlHash # EmptyHash /\ x.urlHash = y.urlHash) => x = y

\* C3: when two concurrent hash shortenings of one URL both missed the
\* lookup, one row survives for the hash and every later shortening of the
\* URL returns the code of that row.
C3_RaceConverges ==
    \A h \in raced :
        /\ Cardinality(PgRowsByHash(db, h)) <= 1
        /\ \A p \in Procs :
             (Done(p, "hash") /\ loc[p].hash = h /\ loc[p].post)
                 => \A x \in PgRowsByHash(db, h) : loc[p].rec.code = x.code

\* C4: a durable Save of a record whose code is already stored returns no
\* error and leaves the stored records unchanged.
C4_SaveExistingUnchanged ==
    [][\A p \in Procs :
         (/\ pc[p] = "save_store"
          /\ pc'[p] = "save_fill"
          /\ PgRowsByCode(db, loc[p].rec.code) # {}) => db' = db]_vars

\* C4 witness: Save has returned nil for a record whose code was stored
\* with another record
C4_Witness ==
    \E p \in Procs :
        /\ pc[p] = "save_fill"
        /\ PgRowsByCode(db, loc[p].rec.code) # {}
        /\ PgRow(loc[p].rec) \notin db

\* C5: a lookup by the code of a record that a create has saved (it is a
\* row of the durable store) and returned finds that record, whatever other
\* saves and lookups ran in between: the redirect goes to the URL that was
\* submitted.
C5_RoundTrip ==
    \A p \in Procs : \A q \in loc[p].after :
        (/\ pc[p] = "respond"
         /\ req[p].op = "redirect"
         /\ loc[p].status \in {"ok", "notfound"}
         /\ pc[q] = "respond"
         /\ loc[q].status = "ok"
         /\ loc[q].created
         /\ Stored(q)
         /\ loc[q].rec.code = req[p].code)
            => /\ loc[p].status = "ok"
               /\ loc[p].rec.code = loc[q].rec.code
               /\ loc[p].rec.originalUrl = req[q].url

\* C6: the token strategy never deduplicates and makes no lookup: a token
\* request only generates a code, calls Save and returns the record it built
\* (generated code, submitted URL, empty hash), also when the URL is already
\* stored; a Save of a code not stored before adds that record as a new row;
\* two token requests given distinct codes by the generator return distinct
\* codes.
C6_TokenAlwaysCreates ==
    /\ [](\A p \in Procs :
            req[p].op = "token" =>
                /\ pc[p] \in {"save_store", "save_fill", "respond"}
                /\ loc[p].status \in {"none", "ok", "error"}
                /\ loc[p].status = "ok" =>
                       /\ loc[p].created
                       /\ loc[p].rec.code = loc[p].gen
                       /\ loc[p].rec.originalUrl = req[p].url
                       /\ loc[p].rec.urlHash = EmptyHash
                /\ \A q \in Procs \ {p} :
                       (/\ Done(p, "token")
                        /\ Done(q, "token")
                        /\ loc[p].gen # loc[q].gen)
                           => loc[p].rec.code # loc[q].rec.code)
    /\ [][\A p \in Procs :
            (/\ req[p].op = "token"
             /\ pc[p] = "save_store"
             /\ pc'[p] = "save_fill"
             /\ PgRowsByCode(db, loc[p].gen) = {})
                => /\ PgRow(loc[p].rec) \notin db
                   /\ db' = db \cup {PgRow(loc[p].rec)}]_vars

\* C6 witness: a token request has returned a new record for a URL of which
\* the store already held a record under another code
C6_Witness ==
    \E p \in Procs :
        /\ Done(p, "token")
        /\ Stored(p)
        /\ \E x \in db : x.originalUrl = req[p].url /\ x.code # loc[p].rec.code

\* C7: a token record has an empty urlHash, the hash index never leads to a
\* token record, and GetByHash (so a hash shortening) never returns one.
C7_TokenNeverByHash ==
    /\ \A p \in Procs : Done(p, "token") => loc[p].rec.urlHash = EmptyHash
    /\ \A i \in cacheIdx : \A e \in cacheEnt :
           e.code = i[2] => e.urlHash # EmptyHash
    /\ \A p \in Procs : Done(p, "hash") => loc[p].rec.urlHash # EmptyHash

(***************************************************************************)
(* Properties of the rate limiter (checked under RLSpec).                  *)
(***************************************************************************)
\* the Record calls on key up to the i-th that lie within the window of the
\* i-th call (made later than its time minus its window)
InWindow(key, i) ==
    {j \in 1..i : calls[key][j].t > calls[key][i].t - calls[key][i].w}

\* C8: when the n Record(k, w) calls made on key k so far all lie within one
\* window w, the n-th returns count n; a Record(k, w) made more than w after
\* the previous call on k returns count 1.
C8_CountInWindow ==
    \A k \in Keys : \A n \in 1..Len(calls[k]) :
        /\ (/\ \A j \in 1..n : calls[k][j].w = calls[k][n].w
            /\ InWindow(k, n) = 1..n)
               => calls[k][n].count = n
        /\ (n > 1 /\ calls[k][n - 1].t < calls[k][n].t - calls[k][n].w)
               => calls[k][n].count = 1

\* C8 witness: two calls within one window, the second counted 2, then a
\* call more than the window later
C8_Witness ==
    \E k \in Keys :
        /\ Len(calls[k]) = 3
        /\ calls[k][1].w = calls[k][2].w
        /\ InWindow(k, 2) = {1, 2}
        /\ calls[k][2].count = 2
        /\ calls[k][2].t < calls[k][3].t - calls[k][3].w

\* C9: under a limit (max = m, window = w) a client's request is allowed (by
\* that limit) while at most m of its requests lie within w, and denied when
\* more than m do, as the (m+1)-th within w; a request made more than w
\* after the client's previous one is allowed again.
C9_LimitThenRecover ==
    \A k \in SlideKeys \cup PolicyKeys : \A i \in 1..Len(verdicts[k]) :
        LET m == LimitOf(k).max
            w == LimitOf(k).window
            n == Cardinality(InWindow(k, i))
        IN  /\ calls[k][i].w = w
            /\ n <= m => verdicts[k][i]
            /\ n > m => ~verdicts[k][i]
            /\ (i > 1 /\ calls[k][i - 1].t < calls[k][i].t - w) => verdicts[k][i]

\* C9 witness: a client was allowed, then denied the (m+1)-th request within
\* the window, then, more than a window later, allowed again
C9_Witness ==
    \E k \in SlideKeys \cup PolicyKeys :
        /\ Len(verdicts[k]) = LimitOf(k).max + 2
        /\ \A i \in 1..LimitOf(k).max : verdicts[k][i]
        /\ InWindow(k, LimitOf(k).max + 1) = 1..(LimitOf(k).max + 1)
        /\ ~verdicts[k][LimitOf(k).max + 1]
        /\ calls[k][LimitOf(k).max + 1].t
             < calls[k][LimitOf(k).max + 2].t - LimitOf(k).window
        /\ verdicts[k][LimitOf(k).max + 2]

\* the limits of the scopes ss in the order of ss and, within a scope, in
\* registration order; a scope without limits contributes none
RECURSIVE InOrder(_)
InOrder(ss) ==
    IF ss = <<>>
      THEN <<>>
      ELSE (IF Head(ss) \in DOMAIN PolicyLimits
              THEN [i \in 1..Len(PolicyLimits[Head(ss)]) |->
                      [scope |-> Head(ss), config |-> PolicyLimits[Head(ss)][i]]]
              ELSE <<>>) \o InOrder(Tail(ss))

\* C10: PolicyLimiter.Allow evaluates the limits in the order of the scope
\* list and, within a scope, in registration order, skipping scopes without
\* limits; it goes on only while no count exceeds its max; it returns false
\* with the scope, config and count of the first limit whose count exceeds
\* its max, and true with no LimitExceeded only when every limit was
\* evaluated and none was exceeded.
C10_FirstOverage ==
    LET order == InOrder(pl.scopes)
        tr == pl.trace
    IN  /\ Len(tr) <= Len(order)
        /\ \A i \in 1..Len(tr) :
             /\ tr[i].scope = order[i].scope
             /\ tr[i].config = order[i].config
             /\ tr[i].count > tr[i].config.max
                  => (i = Len(tr) /\ pl.state = "done" /\ ~pl.allowed)
        /\ (pl.state = "done" /\ ~pl.allowed)
             => /\ tr # <<>>
                /\ tr[Len(tr)].count > tr[Len(tr)].config.max
                /\ pl.exceeded = tr[Len(tr)]
        /\ (pl.state = "done" /\ pl.allowed)
             => /\ Len(tr) = Len(order)
                /\ pl.exceeded = NoExceeded

\* C10 witness: Allow has returned false for the second limit of the second
\* scope, the third limit it evaluated, after another client's call with a
\* scope without limits recorded a hit on the global limit only
C10_Witness ==
    /\ pl.state = "done"
    /\ ~pl.allowed
    /\ Len(pl.trace) = 3
    /\ pl.exceeded.scope = pl.scopes[2]
    /\ pl.exceeded.config = PolicyLimits[pl.scopes[2]][2]
    /\ \E c \in Clients \ {pl.clientKey} :
          /\ Len(calls[buildKey(c, "global", PolicyLimits["global"][1])]) = 1
          /\ \A k \in PolicyKeys : (k[1] = c /\ k[2] # "global") => calls[k] = <<>>

(***************************************************************************)
(* Properties of the rate-limiting middleware (checked under MWSpec).      *)
(***************************************************************************)
\* the position of the Record call of a request that returned an error
\* (Record returns a count of at least 1 when it succeeds)
FailedAt(trace) == {j \in 1..Len(trace) : trace[j].count = 0}

\* C11: when a Record call of the counter store fails during rate limiting,
\* on the policy path or on the custom-limit path, the evaluation stops at
\* once (the failed call is the last one of the request), the request is
\* answered with 500, and next is never called.
C11_StoreErrorStops ==
    /\ \A j \in FailedAt(pl.trace) : j = Len(pl.trace) /\ pl.state = "done"
    /\ FailedAt(mw.trace) = {}
    /\ \A i \in 1..Len(log) : \A j \in FailedAt(log[i].trace) :
          /\ j = Len(log[i].trace)
          /\ log[i].status = 500
          /\ log[i].nexts = 0

\* C11 witness: one request failed at the second limit of the policy path
\* and another at a limit of the custom path
C11_Witness ==
    \E i, k \in 1..Len(log) :
        /\ GetEndpointConfig(log[i].op).nil
        /\ FailedAt(log[i].trace) = {2}
        /\ Len(GetEndpointConfig(log[k].op).limits) > 0
        /\ FailedAt(log[k].trace) # {}
        /\ log[i].status = 500 /\ log[k].status = 500

\* the operation of a request has rate limiting disabled
IsDisabled(o) == ~GetEndpointConfig(o).nil /\ GetEndpointConfig(o).disabled

\* C12: a request to an endpoint whose metadata says disabled = true is
\* forwarded to next, the counter store is left unchanged (no Record call),
\* and the request is never answered with 429.
C12_DisabledForwards ==
    /\ [](\A i \in 1..Len(log) : IsDisabled(log[i].op) =>
            /\ log[i].nexts = 1
            /\ log[i].status = StatusOK
            /\ log[i].trace = <<>>)
    /\ [][(\/ IsDisabled(mw'.op) /\ mw'.state # "idle"
           \/ Len(log') > Len(log) /\ IsDisabled(log'[Len(log')].op))
          => /\ Len(log') > Len(log)
             /\ requests' = requests
             /\ calls' = calls]_vars

\* C12 witness: a client that had reached the limit of another endpoint was
\* forwarded on a disabled endpoint within the window of that limit
C12_Witness ==
    \E i, k \in 1..Len(log) :
        /\ i < k
        /\ log[i].client = log[k].client
        /\ log[i].op = OpCustom
        /\ log[i].trace[1].count = log[i].trace[1].config.max
        /\ IsDisabled(log[k].op)
        /\ log[k].at = log[i].at
        /\ log[k].nexts = 1

\* the operation of a request has limits of its own (and is not disabled)
HasLimits(o) ==
    /\ ~GetEndpointConfig(o).nil
    /\ ~GetEndpointConfig(o).disabled
    /\ Len(GetEndpointConfig(o).limits) > 0

\* the limits of a trace whose count exceeds the maximum
Over(trace) == {j \in 1..Len(trace) : trace[j].count > trace[j].config.max}

\* C13: a request to an endpoint with a non-empty list of limits records
\* only under the keys clientFingerprint:custom:routeTemplate:windowMillis of
\* its limits, in their order, and never touches a counter of the policy; it
\* is answered with 429 at the first limit whose count exceeds the maximum,
\* without calling next, and otherwise calls next exactly once (a request
\* whose Record call failed is the case of C11).
C13_CustomLimits ==
    /\ [](\A i \in 1..Len(log) :
            (HasLimits(log[i].op) /\ FailedAt(log[i].trace) = {}) =>
                LET e == log[i]
                    limits == GetEndpointConfig(e.op).limits
                IN  /\ e.scopes = <<>>
                    /\ \A j \in 1..Len(e.trace) : e.trace[j].config = limits[j]
                    /\ IF Over(e.trace) # {}
                         THEN /\ Over(e.trace) = {Len(e.trace)}
                              /\ e.status = 429
                              /\ e.nexts = 0
                              /\ e.exceeded = e.trace[Len(e.trace)]
                         ELSE /\ Len(e.trace) = Len(limits)
                              /\ e.status = StatusOK
                              /\ e.nexts = 1)
    /\ [][(mw.state = "custom" \/ mw'.state = "custom") =>
            /\ pl' = pl
            /\ \A k \in Keys : calls'[k] # calls[k] =>
                 /\ mw.state = "custom"
                 /\ k \notin PolicyKeys
                 /\ k = <<mw.client, "custom:" \o mw.op.path,
                          GetEndpointConfig(mw.op).limits[mw.li].window>>
                 /\ Len(calls'[k]) = Len(calls[k]) + 1]_vars

\* C13 witness: a request passed both limits of its endpoint and next was
\* called; the client's next request passed the first limit and was answered
\* with 429 at the second
C13_Witness ==
    \E i, k \in 1..Len(log) :
        /\ i < k
        /\ log[i].client = log[k].client
        /\ log[i].op = OpCustom /\ log[k].op = OpCustom
        /\ log[i].nexts = 1 /\ Len(log[i].trace) = 2
        /\ log[k].status = 429 /\ log[k].nexts = 0
        /\ Over(log[k].trace) = {2}

\* the requests before the i-th that came from the same client for the same
\* operation less than window before it
Earlier(i, window) ==
    {h \in 1..(i - 1) : /\ log[h].client = log[i].client
                        /\ log[h].op = log[i].op
                        /\ log[h].at > log[i].at - window}

\* C14: with a write limit of m requests per window, the requests POST
\* /shorten of one client (IP and user agent) within a window are answered
\* with 200 up to the m-th, and the (m+1)-th with 429, the message naming
\* the scope write and the count (m+1)/m.
C14_WriteLimitOnShorten ==
    LET limit == PolicyLimits["write"][1]
    IN  \A i \in 1..Len(log) :
            (log[i].op = OpShorten /\ ~log[i].failed) =>
                /\ Cardinality(Earlier(i, limit.window)) < limit.max
                      => log[i].status = StatusOK
                /\ (/\ Cardinality(Earlier(i, limit.window)) = limit.max
                    /\ \A h \in Earlier(i, limit.window) : log[h].status = StatusOK)
                      => /\ log[i].status = 429
                         /\ log[i].exceeded.scope = "write"
                         /\ log[i].exceeded.count = limit.max + 1
                         /\ log[i].exceeded.config.max = limit.max

(***************************************************************************)
(* Properties of the scope resolver (checked under ResolverSpec).          *)
(***************************************************************************)
\* the operation metadata of a request carries an EndpointConfig
CarriesConfig(o) == o.op /\ o.meta = "config"

\* C15: the scope resolver returns a list of two scopes that starts with
\* global: the second is S when the operation metadata carries an
\* EndpointConfig with the non-empty scope S, and otherwise read for GET,
\* HEAD and OPTIONS and write for every other method (also when the
\* operation or its metadata is missing or of another type).
C15_ResolveScopes ==
    rscopes # <<>> =>
        /\ Len(rscopes) = 2
        /\ rscopes[1] = "global"
        /\ rscopes[2] = IF CarriesConfig(rctx) /\ rctx.cfg.scope # ""
                          THEN rctx.cfg.scope
                          ELSE IF rctx.method \in {"GET", "HEAD", "OPTIONS"}
                                 THEN "read"
                                 ELSE "write"

\* C15 witness: a HEAD request whose metadata holds a value of another type
\* (naming a scope) was resolved by its method
C15_Witness ==
    /\ rctx.method = "HEAD"
    /\ rctx.meta = "wrongtype"
    /\ rctx.cfg.scope = "admin"
    /\ rscopes = <<"global", "read">>

(***************************************************************************)
(* Properties of the handlers (checked under HSpec).                       *)
(***************************************************************************)
\* the handler of p has built its answer to a request to create a short URL
Created(p) == pc[p] = "respond" /\ req[p].op \in {"token", "hash", "create"}

\* the handler of p has built its answer to a redirect
Redirected(p) == pc[p] = "respond" /\ req[p].op = "redirect"

\* C16: a request to create a short URL for a malformed (unparseable) URL
\* is answered with status 400; nothing is stored and no event is published.
C16_MalformedURLIs400 ==
    \A p \in Procs :
        (Created(p) /\ ~req[p].url.valid /\ req[p].strategy \in {"token", "hash", ""}) =>
            /\ loc[p].http = 400
            /\ loc[p].event = "none"
            /\ \A x \in db \cup cacheEnt : x.originalUrl # req[p].url

\* C17: a request to create with a strategy name other than token, hash or
\* the empty name is answered with 400 without a strategy being called (no
\* code is generated, no lookup or save is made), nothing is stored and no
\* event is published; a request with the empty name is served by the token
\* strategy: no lookup by hash, a fresh code, a record without URL hash.
C17_StrategyValidation ==
    /\ [](\A p \in Procs :
            /\ (req[p].op # "none" /\ req[p].op # "redirect"
                   /\ req[p].strategy \notin {"token", "hash", ""}) =>
                  /\ pc[p] = "respond"
                  /\ loc[p].http = 400
                  /\ loc[p].event = "none"
                  /\ loc[p].gen = NoCode
                  /\ loc[p].rec = NoRec
            /\ (req[p].op # "none" /\ req[p].op # "redirect"
                   /\ req[p].strategy = "") =>
                  /\ req[p].op = "token"
                  /\ pc[p] \in {"save_store", "save_fill", "respond"}
                  /\ loc[p].gen # NoCode
                  /\ loc[p].hash = EmptyHash
                  /\ loc[p].status = "ok" =>
                       /\ loc[p].rec = [loc[p].rec EXCEPT !.code = loc[p].gen,
                                                          !.originalUrl = req[p].url,
                                                          !.urlHash = EmptyHash]
                       /\ loc[p].created
                       /\ loc[p].http = 200)
    /\ [][\A p \in Procs :
            (req'[p].op # "none" /\ req'[p].op # "redirect" /\ req[p].op = "none"
                /\ req'[p].strategy \notin {"token", "hash", ""}) =>
                  UNCHANGED <<db, cacheEnt, cacheIdx, issued, now>>]_vars

\* C17 witness: a request with the empty strategy name has been served by
\* the token strategy and its record is stored, and a request with another
\* name has been answered with 400
C17_Witness ==
    \E p, q \in Procs :
        /\ Created(p) /\ req[p].strategy = "" /\ loc[p].http = 200
        /\ PgRow(loc[p].rec) \in db
        /\ Created(q) /\ req[q].strategy = "invalid" /\ loc[q].http = 400

\* C18: a failure of the publisher does not change the outcome of the
\* request: a create whose publish call failed is still answered with
\* success and the record it returns, and what it stored stays stored; a
\* redirect whose publish call failed is still answered with 301 and the
\* original URL of the record read.
C18_PublishFailureSwallowed ==
    /\ [](\A p \in Procs : loc[p].event = "failed" =>
            /\ pc[p] = "respond"
            /\ loc[p].status = "ok"
            /\ loc[p].rec # NoRec
            /\ Created(p) => loc[p].http = 200
            /\ Redirected(p) => /\ loc[p].http = 301
                                /\ loc[p].location = loc[p].rec.originalUrl)
    /\ [][\A p \in Procs :
            (loc'[p].event = "failed" /\ loc[p].event # "failed") =>
                /\ db' = db
                /\ loc'[p].created => PgRowsByCode(db', loc'[p].rec.code) # {}]_vars

\* C18 witness: the publish call of a create failed, the record it saved is
\* stored; the publish call of the redirect of that code failed as well
C18_Witness ==
    \E p, q \in Procs :
        /\ Created(p) /\ loc[p].created /\ loc[p].event = "failed"
        /\ PgRow(loc[p].rec) \in db
        /\ Redirected(q) /\ req[q].code = loc[p].rec.code
        /\ loc[q].event = "failed" /\ loc[q].http = 301

\* C19: within a request the event is published only once the strategy
\* (create) or GetByCode (redirect) has returned without error: there is no
\* publish call when the strategy returns an error, when the code is not
\* found or when the read fails; a create that built a record has saved
\* before it publishes.
C19_PublishAfterSuccess ==
    /\ [](\A p \in Procs :
            /\ loc[p].event # "none" =>
                 /\ pc[p] = "respond"
                 /\ loc[p].status = "ok"
                 /\ loc[p].rec # NoRec
                 /\ loc[p].created => PgRowsByCode(db, loc[p].rec.code) # {}
            /\ loc[p].status \in {"error", "notfound", "invalid"} =>
                 loc[p].event = "none")
    /\ [][\A p \in Procs :
            (loc'[p].event # "none" /\ loc[p].event = "none") =>
                /\ pc[p] \in {"gh_index", "gh_cache", "gh_store", "gh_fill",
                              "save_fill", "gc_cache", "gc_fill"}
                /\ pc[p] = "save_fill" => PgRowsByCode(db, loc[p].rec.code) # {}]_vars

\* C19 witness: the event of a create was published after its record was
\* saved, and a redirect of an unknown code was answered without a publish
\* call
C19_Witness ==
    \E p, q \in Procs :
        /\ Created(p) /\ loc[p].created /\ loc[p].event = "published"
        /\ PgRow(loc[p].rec) \in db
        /\ Redirected(q) /\ loc[q].status = "notfound" /\ loc[q].event = "none"

\* C20: a redirect is answered with 404 when GetByCode reports ErrNotFound,
\* with 500 on any other error of the repository, and otherwise with 301
\* and a Location that is the originalUrl of the record the repository holds
\* under that code (in the cache or in the durable store) when it is read.
C20_RedirectStatus ==
    /\ [](\A p \in Procs : Redirected(p) =>
            /\ loc[p].status \in {"ok", "notfound", "error"}
            /\ loc[p].status = "notfound" => loc[p].http = 404
            /\ loc[p].status = "error" => loc[p].http = 500
            /\ loc[p].status = "ok" => /\ loc[p].http = 301
                                       /\ loc[p].rec.code = req[p].code
                                       /\ loc[p].location = loc[p].rec.originalUrl)
    /\ [][\A p \in Procs :
            (req[p].op = "redirect" /\ pc[p] # "respond" /\ pc'[p] = "respond"
                /\ loc'[p].status = "ok") =>
                \E x \in db \cup cacheEnt : /\ x.code = req[p].code
                                            /\ x.originalUrl = loc'[p].location]_vars

\* C20 witness: a redirect of a stored code that missed the cache was
\* answered with 301 and the URL as it was submitted (not normalized)
C20_Witness ==
    \E p \in Procs :
        /\ Redirected(p) /\ loc[p].http = 301
        /\ loc[p].location = U1
        /\ U1 # NormalizeParsed(U1)
        /\ \E x \in db : x.code = req[p].code /\ x.originalUrl = U1
        /\ \A e \in cacheEnt : e.code # req[p].code


(***************************************************************************)
(* Properties of the URL normaliser (NormSpec).                            *)
(***************************************************************************)
\* the default port of a lower-case scheme, as a host suffix
DefaultPort(scheme) ==
    IF scheme = sHTTP THEN sPort80 ELSE IF scheme = sHTTPS THEN sPort443 ELSE <<>>

\* the hosts are the same up to case and the default port of the scheme
HostsAlike(a, b) ==
    LET ha == ToLower(a.host)
        hb == ToLower(b.host)
        port == DefaultPort(ToLower(a.scheme))
    IN  ha = hb \/ ha = hb \o port \/ hb = ha \o port

\* the paths are the same up to one trailing slash on a non-root path
PathsAlike(a, b) ==
    \/ a.path = b.path
    \/ a.path # <<>> /\ b.path = a.path \o sSlash
    \/ b.path # <<>> /\ a.path = b.path \o sSlash

\* a and b differ only in the case of scheme and host, the default port, one
\* trailing slash on a non-root path, or the fragment
DifferOnlyByNormalised(a, b) ==
    /\ ToLower(a.scheme) = ToLower(b.scheme)
    /\ HostsAlike(a, b)
    /\ PathsAlike(a, b)
    /\ a.query = b.query

\* a and b have the same scheme and differ in the query string, or in a port
\* that is not the default port of the scheme
DifferInQueryOrPort(a, b) ==
    /\ ToLower(a.scheme) = ToLower(b.scheme)
    /\ \/ a.query # b.query
       \/ \E port \in {sPort80, sPort443} :
             /\ port # DefaultPort(ToLower(a.scheme))
             /\ ToLower(a.host) = ToLower(b.host) \o port

\* C26: two URLs that differ only in the case of scheme or host, a default
\* port matching the scheme, one trailing slash on a non-root path, or the
\* fragment have the same hash of their normalised form; two URLs that
\* differ in the query string or a non-default port have different
\* normalised forms.
C26_EquivalentURLsHashAlike ==
    nout # NoNorm =>
        /\ DifferOnlyByNormalised(nin[1], nin[2]) => nout.ha = nout.hb
        /\ DifferInQueryOrPort(nin[1], nin[2]) => nout.a # nout.b

\* C27: normalising a normalised URL returns it unchanged, for every
\* parseable URL, paths ending in more than one slash included.
C27_NormalizeIdempotent ==
    nout # NoNorm => nout.aa = nout.a

(***************************************************************************)
(* Properties of the cache layer (checked under Spec).                     *)
(***************************************************************************)
\* C29: the cached entity of a code equals the durable record of that code
\* (compared on code, original URL and URL hash; the creation times are
\* left out of the comparison), and a cached hash-index entry h -> c points
\* to a durable record with code c and URL hash h; also after a Save whose
\* code already existed.
C29_CacheMatchesStore ==
    /\ \A e \in cacheEnt :
          \E x \in db : /\ x.code = e.code
                        /\ x.originalUrl = e.originalUrl
                        /\ x.urlHash = e.urlHash
    /\ \A i \in cacheIdx :
          \E x \in db : x.code = i[2] /\ x.urlHash = i[1]

\* C25: Save of the cache layer asks the durable store first and writes the
\* cache only after the store has succeeded: the step of store.Save leaves
\* the cached entities and the hash index as they are; when it fails the
\* error is returned with the store unchanged, and the cache is written for
\* a Save only when the store holds a row for the code.
C25_SaveStoreFirst ==
    [][\A p \in Procs :
          /\ (pc[p] = "save_store" /\ pc'[p] # "save_store") =>
                /\ cacheEnt' = cacheEnt
                /\ cacheIdx' = cacheIdx
                /\ pc'[p] \in {"respond", "save_fill"}
                /\ pc'[p] = "respond" =>
                      /\ loc'[p].status = "error"
                      /\ db' = db
                /\ pc'[p] = "save_fill" =>
                      PgRowsByCode(db', loc[p].rec.code) # {}
          /\ (pc[p] = "save_fill" /\ pc'[p] # "save_fill") =>
                /\ PgRowsByCode(db, loc[p].rec.code) # {}
                /\ db' = db
                /\ loc'[p].status = "ok"
                /\ \/ cacheEnt' = cacheEnt /\ cacheIdx' = cacheIdx
                   \/ loc[p].rec \in cacheEnt']_vars

\* a Save has failed in the store while another Save has filled the cache
C25_Witness ==
    \E p \in Procs, q \in Procs :
        /\ pc[p] = "respond" /\ req[p].op = "token" /\ loc[p].status = "error"
        /\ pc[q] = "respond" /\ loc[q].created
        /\ loc[q].rec \in cacheEnt
        /\ loc[p].gen \notin {x.code : x \in db}
        /\ loc[p].gen \notin {e.code : e \in cacheEnt}

\* what a step of goroutine p in GetByCode of the cache layer may do
CacheAsideStep(p) ==
    /\ (pc[p] = "gc_cache" /\ pc'[p] # "gc_cache") =>
          /\ UNCHANGED <<db, cacheEnt, cacheIdx>>
          /\ pc'[p] \in {"respond", "gc_store"}
          /\ pc'[p] = "respond" =>
                /\ loc'[p].status = "ok"
                /\ loc'[p].rec \in cacheEnt
                /\ loc'[p].rec.code = loc[p].code
    /\ (pc[p] = "gc_store" /\ pc'[p] # "gc_store") =>
          /\ UNCHANGED <<db, cacheEnt, cacheIdx>>
          /\ pc'[p] \in {"respond", "gc_fill"}
          /\ pc'[p] = "respond" =>
                /\ loc'[p].status \in {"notfound", "error"}
                /\ loc'[p].rec = NoRec
                /\ loc'[p].status = "notfound" => PgRowsByCode(db, loc[p].code) = {}
          /\ pc'[p] = "gc_fill" =>
                /\ loc'[p].rec \in db
                /\ loc'[p].rec.code = loc[p].code
    /\ (pc[p] = "gc_fill" /\ pc'[p] # "gc_fill") =>
          /\ db' = db
          /\ pc'[p] = "respond"
          /\ loc'[p].status = "ok"
          /\ loc'[p].rec = loc[p].rec
          /\ \/ UNCHANGED <<cacheEnt, cacheIdx>>
             \/ /\ loc[p].rec \in cacheEnt'
                /\ \A e \in cacheEnt' \ cacheEnt : e = loc[p].rec

\* a redirect answered "not found" is of a code that no create which had
\* returned before the redirect started has saved
NotFoundIsFresh ==
    \A p \in Procs : \A q \in loc[p].after :
        (/\ Redirected(p)
         /\ loc[p].status = "notfound"
         /\ pc[q] = "respond"
         /\ loc[q].created)
            => loc[q].rec.code # req[p].code

\* C30: cache-aside reads. GetByCode returns a cached entity without asking
\* the durable store; on a miss it asks the store, and writes the cache only
\* with the record the store returned; a NotFound or an error of the store
\* is returned as it is and nothing is cached, so that a record saved later
\* is found by the next read.
C30_CacheAside ==
    /\ [][\A p \in Procs : CacheAsideStep(p)]_vars
    /\ []NotFoundIsFresh

\* a redirect of a code was answered "not found" with nothing cached for
\* the code, and a create that started after it has saved and cached a
\* record of that code
C30_Witness ==
    \E p \in Procs, q \in Procs :
        /\ Redirected(p)
        /\ loc[p].status = "notfound"
        /\ p \in loc[q].after
        /\ pc[q] = "respond"
        /\ loc[q].created
        /\ loc[q].rec.code = req[p].code
        /\ loc[q].rec \in cacheEnt

(***************************************************************************)
(* Properties of the engine with the cache offline (DownSpec).             *)
(***************************************************************************)
\* C24: while every call of the cache fails and the durable store works,
\* Save returns no error and GetByCode and GetByHash return the durable
\* record (a failure of the cache is a miss on reads and ignored on
\* writes): a request to shorten a parseable URL is answered 200, and a
\* later redirect of a code that a create has returned is answered 301 with
\* the durable record of the code.
C24_CacheOffline ==
    /\ cacheEnt = {} /\ cacheIdx = {}
    /\ \A p \in Procs :
          /\ (Created(p) /\ (req[p].op = "token" \/ req[p].url.valid)) =>
                /\ loc[p].status = "ok"
                /\ loc[p].http = 200
                /\ ~loc[p].created => loc[p].rec \in db
          /\ \A q \in loc[p].after :
                (/\ Redirected(p)
                 /\ pc[q] = "respond"
                 /\ loc[q].created
                 /\ loc[q].rec.code = req[p].code) =>
                    /\ loc[p].http = 301
                    /\ loc[p].rec \in PgRowsByCode(db, req[p].code)

\* with the cache offline a create has been answered 200 and the redirect
\* of its code, started after it, 301
C24_Witness ==
    \E p \in Procs, q \in Procs :
        /\ env.cacheDown
        /\ q \in loc[p].after
        /\ Created(q) /\ loc[q].created /\ loc[q].http = 200
        /\ Redirected(p) /\ req[p].code = loc[q].rec.code
        /\ loc[p].http = 301
        /\ cacheEnt = {}

(***************************************************************************)
(* Independence of the rate-limit keys (checked under RLSpec).             *)
(***************************************************************************)
\* the number of Record calls on key that lie within the window of the
\* call this step has made on it
OwnCount(key) ==
    LET n == Len(calls'[key])
    IN  Cardinality({j \in 1..n :
                       calls'[key][j].t > calls'[key][n].t - calls'[key][n].w})

\* PolicyLimiter.Allow returns false in this step
DeniedStep == pl.state = "loop" /\ pl'.state = "done" /\ ~pl'.allowed

\* C28: the keys are tracked independently. A Record on key k changes the
\* timestamps of k only, a request changes only keys of the client it comes
\* from, and a request is denied only when more requests than the limit of
\* that client itself lie within the window: a client that has used up its
\* limit never causes the denial of a request of another client.
C28_KeysIndependent ==
    [][/\ \A k \in Keys :
            (requests'[k] # requests[k] \/ calls'[k] # calls[k]) =>
                /\ Len(calls'[k]) = Len(calls[k]) + 1
                /\ \A j \in Keys \ {k} :
                      requests'[j] = requests[j] /\ calls'[j] = calls[j]
                /\ pl' # pl => k[1] = pl.clientKey
       /\ DeniedStep =>
            \E k \in PolicyKeys :
                /\ k[1] = pl.clientKey
                /\ calls'[k] # calls[k]
                /\ OwnCount(k) > LimitOf(k).max
       /\ \A k \in SlideKeys :
            (/\ Len(verdicts'[k]) > Len(verdicts[k])
             /\ ~verdicts'[k][Len(verdicts'[k])]) =>
                OwnCount(k) > LimitOf(k).max]_vars

\* one client has been denied under a limit and another client, asking at
\* the same time for the same scope, has been allowed
C28_Witness ==
    /\ pl.state = "done"
    /\ pl.allowed
    /\ pl.clientKey = ClientSeq[2]
    /\ \E k \in PolicyKeys :
          /\ k[1] = ClientSeq[1]
          /\ \E i \in 1..Len(pl.scopes) : pl.scopes[i] = k[2]
          /\ verdicts[k] # <<>>
          /\ ~verdicts[k][Len(verdicts[k])]
          /\ calls[k][Len(calls[k])].t = rlNow

(***************************************************************************)
(* Properties of the consumer group (checked under CGSpec).                *)
(***************************************************************************)
\* C21: every message a consumer has taken and handled has received exactly
\* one of Ack and Nack: Ack if and only if the payload unmarshalled and the
\* handler returned nil; for a payload that is no valid JSON the message is
\* nacked and the handler is never called (nothing is persisted). A message
\* still in the hands of its worker has received neither.
C21_AckOrNack ==
    \A m \in 1..Len(msgs) :
        LET x == msgs[m]
        IN  /\ x.done =>
                  /\ x.acks + x.nacks = 1
                  /\ x.acks = 1 <=> (x.valid /\ x.handled = 1 /\ x.handlerOk)
                  /\ ~x.valid => (x.nacks = 1 /\ x.handled = 0)
                  /\ x.valid => x.handled = 1
            /\ ~x.done =>
                  /\ x.acks = 0 /\ x.nacks = 0 /\ x.handled = 0
                  /\ workers[x.w].loop = "busy"

\* a message with an invalid payload has been nacked without a call of the
\* handler, and one whose handler failed has been nacked too
C21_Witness ==
    \E m \in 1..Len(msgs), n \in 1..Len(msgs) :
        /\ msgs[m].done /\ ~msgs[m].valid /\ msgs[m].nacks = 1 /\ msgs[m].handled = 0
        /\ msgs[n].done /\ msgs[n].valid /\ ~msgs[n].handlerOk /\ msgs[n].nacks = 1

\* C22: ConsumerGroup.Start starts the consumers in registration order; when
\* consumer i fails to start, Start returns an error, and by then every
\* consumer before i has been started and shut down (its loop has exited)
\* and no consumer from i on has been started: no worker is left running.
C22_StartRollsBack ==
    /\ \A j \in GroupConsumers : \A k \in GroupConsumers :
          (workers[j].started /\ k < j) => workers[k].started
    /\ cg.op = "running" =>
          (cg.failedAt = 0 /\ \A j \in GroupConsumers : workers[j].started)
    /\ cg.failedAt # 0 => cg.op \in {"rollback", "failed"}
    /\ cg.op = "failed" =>
          /\ cg.failedAt \in GroupConsumers
          /\ \A k \in GroupConsumers :
                IF k < cg.failedAt
                  THEN /\ workers[k].started
                       /\ workers[k].shutdown
                       /\ workers[k].loop = "exited"
                  ELSE /\ ~workers[k].started
                       /\ workers[k].loop = "none"

\* Start has returned an error after the second of three consumers failed
\* to start; the first had handled a message and has been shut down
C22_Witness ==
    /\ cg.op = "failed"
    /\ cg.failedAt = 2
    /\ workers[1].shutdown
    /\ \E m \in 1..Len(msgs) : msgs[m].w = 1 /\ msgs[m].done

\* C23: ConsumerGroup.Shutdown shuts down every registered consumer, also
\* after one of them has returned an error; the subscriber is closed only
\* when every consumer has been shut down and no worker holds a message;
\* Shutdown returns the first error that occurred (nil if none did).
C23_ShutdownAll ==
    /\ cg.closed =>
          /\ \A j \in GroupConsumers :
                workers[j].shutdown /\ workers[j].loop = "exited"
          /\ \A m \in 1..Len(msgs) : msgs[m].done
    /\ cg.op = "shutdown" =>
          \A j \in GroupConsumers : j < cg.i => workers[j].shutdown
    /\ cg.op = "down" =>
          /\ cg.closed
          /\ cg.firstErr = IF cg.errs = <<>> THEN 0 ELSE cg.errs[1]

\* Shutdown has returned the error of the first consumer; the second
\* consumer failed too, every consumer has been shut down after a message
\* was handled, and the subscriber is closed
C23_Witness ==
    /\ cg.op = "down"
    /\ Len(cg.errs) >= 2
    /\ cg.errs[1] = 1
    /\ cg.errs[2] = 2
    /\ cg.firstErr = 1
    /\ \A j \in GroupConsumers : workers[j].shutdown
    /\ msgs # <<>>

(***************************************************************************)
(* Pruning in the memory store (checked under RLSpec).                     *)
(***************************************************************************)
\* C32: Record(key, window) at time now drops exactly the timestamps older
\* than now - window: a timestamp equal to now - window is kept and
\* counted, every newer one is kept, and now is appended.
C32_PruneOlderOnly ==
    [][\A k \in Keys :
          calls'[k] # calls[k] =>
              LET w == calls'[k][Len(calls'[k])].w
              IN  /\ requests'[k] =
                        Append(SelectSeq(requests[k],
                                         LAMBDA ts : ts >= rlNow - w), rlNow)
                  /\ calls'[k][Len(calls'[k])].count = Len(requests'[k])]_vars

\* C33: no key keeps timestamps once its window has passed: every stored
\* timestamp of every key lies within the window of the key's last Record
\* call, counted back from the current time (the boundary included), also
\* for keys that get no further requests.
C33_RecordsTransient ==
    \A k \in Keys : \A n \in 1..Len(requests[k]) :
        requests[k][n] >= rlNow - calls[k][Len(calls[k])].w

(***************************************************************************)
(* The hits PolicyLimiter.Allow records (checked under RLSpec).            *)
(***************************************************************************)
\* the limits a call with these scopes evaluates when none is exceeded, in
\* order, each with its scope
RECURSIVE LimitsInOrder(_)
LimitsInOrder(scopes) ==
    IF scopes = <<>> THEN <<>>
    ELSE LET sc == Head(scopes)
             own == IF sc \in DOMAIN PolicyLimits
                      THEN [i \in 1..Len(PolicyLimits[sc]) |->
                              [scope |-> sc, config |-> PolicyLimits[sc][i]]]
                      ELSE <<>>
         IN  own \o LimitsInOrder(Tail(scopes))

\* the limit a trace entry was recorded for
LimitOfEntry(e) == [scope |-> e.scope, config |-> e.config]

C40_GetByHashSameHash ==
    \A p \in Procs :
        (pc[p] = "respond" /\ req[p].op = "hash" /\ loc[p].status = "ok")
            => loc[p].rec.urlHash = loc[p].hash

(***************************************************************************)
(* The event of a create request (checked under HSpec).                    *)
(***************************************************************************)
\* C39: every create request that succeeds attempts one URLCreatedEvent
\* publish, also when the hash strategy returned a record that existed; the
\* event carries code, original URL, URL hash and creation time of the
\* record returned, not the URL of the request; the event of a request is
\* built once and does not change.
C39_EventOfReturnedRecord ==
    /\ [](\A p \in Procs :
            (Created(p) /\ loc[p].status = "ok") =>
                /\ loc[p].event \in {"published", "failed"}
                /\ Len(loc[p].created_events) = 1
                /\ loc[p].created_events[1].code = loc[p].rec.code
                /\ loc[p].created_events[1].originalUrl = loc[p].rec.originalUrl
                /\ loc[p].created_events[1].urlHash = loc[p].rec.urlHash
                /\ loc[p].created_events[1].createdAt = loc[p].rec.createdAt)
    /\ [][\A p \in Procs :
            (loc[p].event # "none" /\ pc'[p] = "respond") =>
                /\ loc'[p].event = loc[p].event
                /\ loc'[p].created_events = loc[p].created_events]_vars

\* a hash shortening has returned a record that existed, stored for another
\* spelling of the URL, and its event carries the URL of that record
C39_Witness ==
    \E p \in Procs :
        /\ Created(p)
        /\ req[p].op = "hash"
        /\ loc[p].status = "ok"
        /\ ~loc[p].created
        /\ loc[p].rec.originalUrl # req[p].url
        /\ loc[p].event = "published"
        /\ Len(loc[p].created_events) = 1
        /\ loc[p].created_events[1].originalUrl = loc[p].rec.originalUrl

(***************************************************************************)
(* Shutdown of a consumer and its loop (checked under CGSpec).             *)
(***************************************************************************)
\* C34: when Shutdown of a consumer whose Start succeeded has returned, the
\* loop of the consumer has exited, every message the consumer took has
\* been acked or nacked, no handler is running, and from then on the
\* consumer takes and handles no message.
C34_ShutdownAfterLoopExit ==
    /\ [](\A j \in GroupConsumers :
            (workers[j].started /\ workers[j].shutdown) =>
                /\ workers[j].loop = "exited"
                /\ \A m \in 1..Len(msgs) :
                     msgs[m].w = j =>
                        msgs[m].done /\ msgs[m].acks + msgs[m].nacks = 1)
    /\ [][\A j \in GroupConsumers :
            (workers[j].started /\ workers[j].shutdown) =>
                /\ workers'[j].loop = workers[j].loop
                /\ \A m \in 1..Len(msgs') :
                     msgs'[m].w = j => (m <= Len(msgs) /\ msgs'[m] = msgs[m])]_vars

\* Shutdown of a consumer that handled a message has returned while the
\* loop of another consumer is handling one
C34_Witness ==
    \E j \in GroupConsumers :
        /\ workers[j].started
        /\ workers[j].shutdown
        /\ \E m \in 1..Len(msgs) : msgs[m].w = j /\ msgs[m].handled = 1
        /\ \E k \in GroupConsumers : workers[k].loop = "busy"

\* C35: once Shutdown has cancelled the context of a consumer, its loop
\* begins no further message: it finishes at most the message it is
\* handling.  (The select of consumeLoop chooses among the ready cases, so
\* a waiting message can be received after the cancellation.)
C35_NoTakeAfterCancel ==
    [][\A j \in GroupConsumers :
         (workers[j].cancelled /\ cg.op \in {"rollback", "shutdown"}) =>
            ~(workers[j].loop = "idle" /\ workers'[j].loop = "busy")]_vars

(***************************************************************************)
(* Termination of Shutdown (checked under CGLiveSpec).                     *)
(***************************************************************************)
\* C38: Shutdown always terminates: a call of ConsumerGroup.Shutdown, and
\* with it every Consumer.Shutdown it makes, returns, whether Start
\* succeeded, failed, was never called, or Shutdown was called before.
\* (Shutdown of a consumer whose loop was never started waits on a done
\* channel that nothing closes.)
C38_ShutdownTerminates == (cg.op = "shutdown") ~> (cg.op = "down")

\* Shutdown of a group whose consumers were all started returns
ShutdownOfStartedTerminates ==
    (cg.op = "shutdown" /\ \A j \in GroupConsumers : workers[j].started)
        ~> (cg.op = "down")

(***************************************************************************)
(* At-least-once handling (checked under CGLiveSpec).                      *)
(***************************************************************************)
\* C36: with a transport that delivers every nacked message again and a
\* handler that returns nil in the end, every message with a payload that
\* unmarshals, once received by a consumer, is in the end handled with nil
\* and acked, unless the context of the consumer is cancelled first; and a
\* message is acked only by the handleMessage whose handler returned nil.
C36_AtLeastOnce ==
    /\ \A m \in 1..MaxLiveMsgs :
         (m <= Len(msgs) /\ msgs[m].valid)
            ~> (/\ m <= Len(msgs)
                /\ \/ msgs[m].acks = 1 /\ msgs[m].handlerOk
                   \/ workers[msgs[m].w].cancelled)
    /\ [](\A m \in 1..Len(msgs) :
            msgs[m].acks = 1 =>
                (msgs[m].valid /\ msgs[m].handled = 1 /\ msgs[m].handlerOk))
    /\ [][\A m \in 1..Len(msgs) :
            (msgs[m].acks = 0 /\ msgs'[m].acks = 1) => msgs'[m].handlerOk]_vars

\* a message whose handler failed was nacked, delivered again, handled with
\* nil and acked, by a consumer whose context is not cancelled
C36_Witness ==
    \E m \in 1..Len(msgs) :
        /\ msgs[m].valid
        /\ msgs[m].again
        /\ msgs[m].done
        /\ msgs[m].handlerOk
        /\ msgs[m].acks = 1
        /\ ~workers[msgs[m].w].cancelled

(***************************************************************************)
(* Record under concurrency (checked under ConcSpec).                      *)
(***************************************************************************)
\* the goroutines whose Record has returned
RecordReturned == {g \in DOMAIN conc.callers : conc.callers[g].pc = "done"}

\* every call so far read its time within one window of every other
WithinOneWindow ==
    \A g, h \in DOMAIN conc.callers :
        (/\ conc.callers[g].pc \in {"read", "done"}
         /\ conc.callers[h].pc \in {"read", "done"})
            => conc.callers[g].now > conc.callers[h].now - env.window

\* C31: when n goroutines call Record on one key at the same time, within
\* one window and starting from an empty record, no hit is lost and the
\* counts returned are exactly 1..n, each returned once: at any moment the
\* calls that have returned have returned 1..r, each once, and when no
\* call is in progress the record holds r timestamps.
C31_RecordAtomic ==
    WithinOneWindow =>
        /\ {conc.callers[g].count : g \in RecordReturned} = 1..Cardinality(RecordReturned)
        /\ \A g, h \in RecordReturned : conc.callers[g].count = conc.callers[h].count => g = h
        /\ (\A g \in DOMAIN conc.callers : conc.callers[g].pc = "done") =>
              \A key \in DirectKeys : Len(requests[key]) = Cardinality(RecordReturned)

\* all goroutines have returned, within one window, and one of them waited
\* for the mutex while the clock advanced
C31_Witness ==
    /\ WithinOneWindow
    /\ RecordReturned = Callers
    /\ \E g, h \in RecordReturned : conc.callers[g].now # conc.callers[h].now
    /\ \A key \in DirectKeys : Len(requests[key]) = MaxCallers
====
